---- MODULE Spec2Model ----
(***************************************************************************)
(* PDF Buddy: the ingestion worker (extraction, chunking, embedding,       *)
(* persisting), the storage directory tree it writes, and the HTTP server: *)
(* listProcessedPDFs, getPDFContent, searchPDFs, getAIAnswer and the       *)
(* routes /upload/pdf, /pdfs, /pdf/:id, /chat and /search.                 *)
(*                                                                         *)
(* Text is kept run-length encoded: a text is a sequence of runs           *)
(* [ws |-> BOOLEAN, n |-> length, ch |-> character], n copies of the       *)
(* character ch, ws telling whether it is a whitespace character.  length, *)
(* substring, trim, concatenation, toLowerCase, includes and indexOf are   *)
(* computed on the runs exactly as JavaScript computes them on the         *)
(* characters.  The character "x" stands for the characters of a text that *)
(* no query of the model contains, " " for every whitespace character.     *)
(* Names (file names, directory names) are sequences of one-character      *)
(* strings.                                                                *)
(***************************************************************************)
EXTENDS Integers, Sequences, FiniteSets, TLC

VARIABLES jobs, queue, status, runs, fs, now, faults,
          lpc, ltodo, lpdfs, lresult, ctext, cchunks, cpc, req, ui

vars == <<jobs, queue, status, runs, fs, now, faults,
          lpc, ltodo, lpdfs, lresult, ctext, cchunks, cpc, req, ui>>

(***************************************************************************)
(* Bounds of the model.                                                    *)
(***************************************************************************)
MaxJobs == 2
MaxReadJobs == 1
MaxServeJobs == 2
MaxUploadJobs == 2
MaxRedeliverJobs == 1
MaxRedeliveries == 1
MaxClicks == 3
MaxTime == 1
MaxFsFailures == 1
MaxEmbedFailures == 1
MaxReadFailures == 1

(***************************************************************************)
(* Program constants.                                                      *)
(***************************************************************************)
chunkSize == 1000
overlap == 200
MaxChunks == 50
MaxEmbedChunks == 10
MinEmbedLength == 20
SafeNameLimit == 100
FallbackLines == 50
FallbackMinLength == 100
Concurrency == 1

Min(a, b) == IF a < b THEN a ELSE b
Max(a, b) == IF a > b THEN a ELSE b

(***************************************************************************)
(* Run-length encoded text.                                                *)
(***************************************************************************)
K(ch, n) == [ws |-> (ch = " "), n |-> n, ch |-> ch]
C(n) == K("x", n)
W(n) == K(" ", n)

\* concatenation of two texts in canonical form (no empty run, no two
\* adjacent runs of the same character), in canonical form
Cat(s, t) ==
  IF s = <<>> THEN t
  ELSE IF t = <<>> THEN s
  ELSE IF s[Len(s)].ch = t[1].ch
       THEN SubSeq(s, 1, Len(s) - 1)
            \o <<K(t[1].ch, s[Len(s)].n + t[1].n)>> \o Tail(t)
       ELSE s \o t

RECURSIVE TextLength(_)
TextLength(t) == IF t = <<>> THEN 0 ELSE Head(t).n + TextLength(Tail(t))

RECURSIVE DropChars(_, _)
DropChars(t, k) ==
  IF k <= 0 \/ t = <<>> THEN t
  ELSE IF Head(t).n <= k THEN DropChars(Tail(t), k - Head(t).n)
  ELSE <<K(Head(t).ch, Head(t).n - k)>> \o Tail(t)

RECURSIVE TakeChars(_, _)
TakeChars(t, k) ==
  IF k <= 0 \/ t = <<>> THEN <<>>
  ELSE IF Head(t).n <= k THEN <<Head(t)>> \o TakeChars(Tail(t), k - Head(t).n)
  ELSE <<K(Head(t).ch, k)>>

\* String.prototype.substring(a, b): both ends clamped to [0, length]
Substring(t, a, b) ==
  LET len == TextLength(t)
      lo == Min(Max(a, 0), len)
      hi == Min(Max(b, 0), len)
  IN TakeChars(DropChars(t, Min(lo, hi)), Max(lo, hi) - Min(lo, hi))

RECURSIVE TrimStart(_)
TrimStart(t) == IF t # <<>> /\ Head(t).ws THEN TrimStart(Tail(t)) ELSE t

RECURSIVE TrimEnd(_)
TrimEnd(t) ==
  IF t # <<>> /\ t[Len(t)].ws THEN TrimEnd(SubSeq(t, 1, Len(t) - 1)) ELSE t

\* String.prototype.trim
Trim(t) == TrimEnd(TrimStart(t))

RECURSIVE Words(_)
\* words of the given lengths separated by single spaces
Words(ls) ==
  IF ls = <<>> THEN <<>>
  ELSE IF Len(ls) = 1 THEN <<C(Head(ls))>>
  ELSE <<C(Head(ls)), W(1)>> \o Words(Tail(ls))

RECURSIVE NameText(_)
\* the text of a name, character by character
NameText(name) ==
  IF name = <<>> THEN <<>>
  ELSE Cat(<<K(Head(name), 1)>>, NameText(Tail(name)))

(***************************************************************************)
(* Names.                                                                  *)
(***************************************************************************)
\* the characters of the model's names that the class [a-zA-Z0-9.-] accepts
SafeChars == {"a", "b", "c", "d", "e", "f", "g", "h", "o", "r",
              "0", "1", "2", "3", "4", "5", "6", "7", "8", "9", ".", "-"}

RECURSIVE Sanitize(_)
\* fileName.replace(/[^a-zA-Z0-9.-]/g, '_')
Sanitize(name) ==
  IF name = <<>> THEN <<>>
  ELSE <<IF Head(name) \in SafeChars THEN Head(name) ELSE "_">>
       \o Sanitize(Tail(name))

SafeName(name) == SubSeq(Sanitize(name), 1, Min(SafeNameLimit, Len(name)))

DigitChar(d) == CASE d = 0 -> "0" [] d = 1 -> "1" [] d = 2 -> "2"
                  [] d = 3 -> "3" [] d = 4 -> "4" [] d = 5 -> "5"
                  [] d = 6 -> "6" [] d = 7 -> "7" [] d = 8 -> "8"
                  [] d = 9 -> "9"

RECURSIVE Digits(_)
\* the decimal rendering of a number inside a template string
Digits(n) == IF n < 10 THEN <<DigitChar(n)>>
             ELSE Digits(n \div 10) \o <<DigitChar(n % 10)>>

\* the directory name without the job id
SavePathNoJobId(fileName, jobId, timestamp) ==
  SafeName(fileName) \o <<"_">> \o Digits(timestamp)

\* path.join(STORAGE_DIR, `${safeName}_${job.id}_${timestamp}`)
SavePath(fileName, jobId, timestamp) ==
  SafeName(fileName) \o <<"_">> \o Digits(jobId) \o <<"_">> \o Digits(timestamp)

ErrorPrefix == <<"e", "r", "r", "o", "r", "_">>

\* the error directory named as a document directory is
ErrorPathNoPrefix(fileName, timestamp) ==
  Sanitize(fileName) \o <<"_">> \o Digits(timestamp)

\* path.join(STORAGE_DIR, `error_${safeName}_${Date.now()}`)
ErrorPath(fileName, timestamp) ==
  ErrorPrefix \o Sanitize(fileName) \o <<"_">> \o Digits(timestamp)

\* item.name.startsWith('error_')
StartsWithError(name) ==
  Len(name) >= Len(ErrorPrefix) /\ SubSeq(name, 1, Len(ErrorPrefix)) = ErrorPrefix

(***************************************************************************)
(* Text extraction.  A PDF is what the parsing library and the raw bytes   *)
(* make of it: loads tells whether getDocument succeeds, pages gives for   *)
(* each page whether its extraction succeeds and the joined text of its    *)
(* items, raw gives the lines of the first 10000 bytes of the buffer (the  *)
(* result of split('\n')), each with its text and whether it includes one  *)
(* of the tokens %PDF or xref.                                             *)
(***************************************************************************)
\* `[Page ${i}]`
PageMarker(i) ==
  NameText(<<"[", "P", "a", "g", "e", " ">> \o Digits(i) \o <<"]">>)

\* `[Page ${i}]\n${pageText}\n\n`  or  `[Page ${i}] - Extraction failed\n\n`
PageSpan(i, page) ==
  IF page.ok
  THEN Cat(Cat(PageMarker(i) \o <<W(1)>>, page.text), <<W(2)>>)
  ELSE Cat(PageMarker(i) \o <<W(1)>>, Words(<<1, 10, 6>>) \o <<W(2)>>)

RECURSIVE FullText(_, _)
FullText(pages, i) ==
  IF i > Len(pages) THEN <<>>
  ELSE Cat(PageSpan(i, pages[i]), FullText(pages, i + 1))

RECURSIVE KeptLines(_)
\* .filter(line => line.trim().length > 0 && !line.includes('%PDF') && !line.includes('xref'))
KeptLines(raw) ==
  IF raw = <<>> THEN <<>>
  ELSE IF TextLength(Trim(Head(raw).text)) > 0 /\ ~Head(raw).token
       THEN <<Head(raw).text>> \o KeptLines(Tail(raw))
       ELSE KeptLines(Tail(raw))

RECURSIVE JoinLines(_)
\* .join('\n')
JoinLines(ls) ==
  IF ls = <<>> THEN <<>>
  ELSE IF Len(ls) = 1 THEN Head(ls)
  ELSE Cat(Cat(Head(ls), <<W(1)>>), JoinLines(Tail(ls)))

\* '[PDF Extraction Failed - Using Fallback]'
FallbackMarker == Words(<<4, 10, 6, 1, 5, 9>>)

FallbackText(raw) ==
  LET kept == KeptLines(raw)
  IN JoinLines(SubSeq(kept, 1, Min(FallbackLines, Len(kept))))

\* extractPDFText: the text it returns, or threw = TRUE when it throws
extractPDFText(pdf) ==
  LET text == IF pdf.loads THEN Trim(FullText(pdf.pages, 1)) ELSE <<>>
      lines == FallbackText(pdf.raw)
  IN IF pdf.loads /\ TextLength(text) # 0
     THEN [threw |-> FALSE, text |-> text]
     ELSE IF TextLength(lines) > FallbackMinLength
          THEN [threw |-> FALSE,
                text |-> Cat(Cat(FallbackMarker, <<W(1)>>), lines)]
          ELSE [threw |-> TRUE, text |-> <<>>]

\* the placeholder of the job handler:
\* `PDF: ${fileName}\n\nNote: Text extraction partially failed. ... anyway.`
Placeholder(fileName) ==
  Cat(Cat(Cat(<<C(4), W(1)>>, NameText(fileName)), <<W(2)>>),
      Words(<<5, 4, 10, 9, 7, 4, 4, 4, 7, 10, 2, 6, 3, 3, 7, 3, 5>>)
      \o <<W(2)>> \o Words(<<3, 6, 9, 5, 3, 3, 7, 7>>))

\* the extraction step that forgets to clear extractionSuccess
ExtractStepKeepsFlag(pdf, fileName) ==
  LET r == extractPDFText(pdf)
  IN [extractedText |-> IF r.threw THEN Placeholder(fileName) ELSE r.text,
      extractionSuccess |-> TRUE]

\* the extraction step of the job handler: extractPDFText or the placeholder
ExtractStep(pdf, fileName) ==
  LET r == extractPDFText(pdf)
  IN IF r.threw
     THEN [extractedText |-> Placeholder(fileName), extractionSuccess |-> FALSE]
     ELSE [extractedText |-> r.text, extractionSuccess |-> TRUE]

(***************************************************************************)
(* Chunking.  A chunk is kept with the offset its window starts at; the    *)
(* code keeps the text only.                                               *)
(***************************************************************************)
RECURSIVE ChunkLoopNoOverlap(_, _, _)
\* the loop advancing by a whole window
ChunkLoopNoOverlap(text, i, chunks) ==
  IF ~(i < TextLength(text)) THEN chunks
  ELSE LET chunk == Substring(text, i, i + chunkSize)
           pushed == IF TextLength(Trim(chunk)) > 0
                     THEN Append(chunks, [start |-> i, text |-> chunk])
                     ELSE chunks
       IN IF Len(pushed) >= MaxChunks THEN pushed
          ELSE ChunkLoopNoOverlap(text, i + chunkSize, pushed)

RECURSIVE ChunkLoop(_, _, _)
\* for (let i = 0; i < extractedText.length; i += chunkSize - overlap)
ChunkLoop(text, i, chunks) ==
  IF ~(i < TextLength(text)) THEN chunks
  ELSE LET chunk == Substring(text, i, i + chunkSize)
           pushed == IF TextLength(Trim(chunk)) > 0
                     THEN Append(chunks, [start |-> i, text |-> chunk])
                     ELSE chunks
       IN IF Len(pushed) >= MaxChunks THEN pushed
          ELSE ChunkLoop(text, i + (chunkSize - overlap), pushed)

\* the chunker trimming the single chunk of a short text
ChunkTextTrimmed(text) ==
  IF TextLength(text) > chunkSize
  THEN ChunkLoop(text, 0, <<>>)
  ELSE <<[start |-> 0, text |-> Trim(text)]>>

\* the chunker without the else branch
ChunkTextNoElse(text) ==
  IF TextLength(text) > chunkSize THEN ChunkLoop(text, 0, <<>>) ELSE <<>>

\* if (extractedText.length > chunkSize) { ... } else { chunks.push(extractedText) }
ChunkText(text) ==
  IF TextLength(text) > chunkSize
  THEN ChunkLoop(text, 0, <<>>)
  ELSE <<[start |-> 0, text |-> text]>>

(***************************************************************************)
(* The source files the jobs of the model name.  A path is the name of    *)
(* the file (path.basename of it); the upload directory is left out.       *)
(***************************************************************************)
Page(ok, text) == [ok |-> ok, text |-> text]
Line(text, token) == [text |-> text, token |-> token]
Pdf(loads, pages, raw) == [loads |-> loads, pages |-> pages, raw |-> raw]
File(exists, size, pdf) == [exists |-> exists, size |-> size, pdf |-> pdf]

NoPdf == Pdf(FALSE, <<>>, <<>>)

\* the first bytes of a file that is not a PDF the library can load:
\* a header line, two lines of text ending in a carriage return, a blank line
RawLines == <<Line(<<C(8)>>, TRUE), Line(<<C(60), W(1)>>, FALSE),
              Line(<<W(3)>>, FALSE), Line(<<C(60), W(1)>>, FALSE)>>

Disk ==
  (<<"a">> :> File(FALSE, 0, NoPdf))
  @@ (<<"d">> :> File(TRUE, 2,
                      Pdf(TRUE, <<Page(TRUE, <<K("Q", 1), K("q", 1), C(498),
                                                W(1500), C(401)>>)>>, <<>>)))
  @@ (<<"e">> :> File(TRUE, 3, Pdf(FALSE, <<>>, RawLines)))
  @@ (<<"f", " ">> :> File(TRUE, 4, Pdf(FALSE, <<>>, <<Line(<<C(8)>>, TRUE)>>)))
  @@ (<<"g">> :> File(TRUE, 5, Pdf(TRUE, <<Page(TRUE, <<C(8200)>>)>>, <<>>)))

Paths == DOMAIN Disk

(***************************************************************************)
(* State.                                                                  *)
(*   jobs    the data of the jobs added to the queue; job.id is the index  *)
(*   queue   the ids of the waiting jobs, first in first out               *)
(*   status  what the queue knows of each job                              *)
(*   runs    the runs of the job handler in progress, by job id; embedCalls *)
(*           records the calls of model.embedContent of the run, errorSaved *)
(*           whether error.json was written                                 *)
(*   fs      the directories under STORAGE_DIR, by name                    *)
(*   now     the clock Date.now() reads                                    *)
(*   faults  the failures of the file system and of the embedding service  *)
(*           so far, and the jobs the queue has handed out again (stalled) *)
(*   lpc, ltodo, lpdfs, lresult   one call of listProcessedPDFs            *)
(*   cpc, ctext, cchunks          the chunker applied to one text          *)
(*   req     the HTTP request the server is handling, with its response    *)
(*   ui      the FileUpload component in the browser: its React state, the *)
(*           file dialog, the fetches in flight and the timers             *)
(***************************************************************************)
NoMetadata ==
  [jobId |-> 0, fileName |-> <<>>, savedAt |-> 0, fileSize |-> 0,
   textLength |-> 0, chunksCount |-> 0, embeddingsGenerated |-> 0,
   extractionSuccess |-> FALSE, storagePath |-> <<>>]

NoErrorMeta == [jobId |-> 0, fileName |-> <<>>, error |-> ""]

\* a directory fs.mkdir has just created
EmptyDir ==
  [files |-> {}, original |-> <<>>, text |-> <<>>, chunks |-> <<>>,
   embeddings |-> <<>>, metadata |-> NoMetadata, error |-> NoErrorMeta,
   writers |-> {}]

NewRun ==
  [pc |-> "parse", fileName |-> <<>>, extractedText |-> <<>>,
   extractionSuccess |-> TRUE, chunks |-> <<>>, i |-> 0,
   chunksWithEmbeddings |-> <<>>, embedCalls |-> <<>>,
   savePath |-> <<>>, written |-> 0, error |-> "", errorPath |-> <<>>,
   errorSaved |-> FALSE]

\* no entry of the list of processed PDFs
NoPdfEntry ==
  [id |-> <<>>, name |-> <<>>, savedAt |-> 0, fileSize |-> 0, textLength |-> 0,
   chunks |-> 0, embeddings |-> 0, extractionSuccess |-> FALSE]

\* what getPDFContent returns: null, or a text
NoContent == [null |-> TRUE, text |-> <<>>]

\* no file in the request
NoUpload == [present |-> FALSE, mimetype |-> "", size |-> 0, path |-> <<>>]

\* a response: status 0 while none is sent; fields names the fields of the
\* JSON body, the other fields of the record give their values (status_ is
\* the field status of the body)
NoResponse ==
  [status |-> 0, fields |-> {}, success |-> FALSE, error |-> "",
   message |-> <<>>, query |-> <<>>, hasPDFs |-> FALSE, hasAnswer |-> FALSE,
   source |-> "", availablePDFs |-> <<>>, pdfId |-> <<>>, pdfName |-> <<>>,
   matches |-> 0, results |-> <<>>, count |-> 0, contentPreview |-> NoContent,
   hasText |-> FALSE, pdfs |-> <<>>, id |-> <<>>, metadata |-> NoMetadata,
   files |-> {}, recent |-> <<>>, total |-> 0, jobId |-> 0, filename |-> <<>>,
   status_ |-> "", note |-> <<>>, details |-> ""]

\* no request in progress.  The fields of a request: the route, the position
\* of its handler, its parameters (query, pdfId, file), the locals of the
\* handler (pdfs, target, metadata, content, maxLength of the getPDFContent call, k the
\* model getAIAnswer is at, todo and results of searchPDFs), the calls made
\* so far (aiCalls, searches, reads), the errors getAIAnswer has thrown to
\* the handler (thrown), the calls of fs that failed, the documents
\* searchPDFs has passed over for want of content (skipped), the jobs the
\* handler has added to the queue (added) and the response
NoRequest ==
  [route |-> "none", pc |-> "idle", query |-> <<>>, pdfId |-> <<>>,
   file |-> NoUpload, pdfs |-> <<>>, target |-> NoPdfEntry,
   metadata |-> NoMetadata, maxLength |-> 0,
   content |-> NoContent, k |-> 0, todo |-> <<>>, results |-> <<>>,
   aiCalls |-> <<>>, thrown |-> <<>>, searches |-> 0, reads |-> 0,
   failures |-> 0, skipped |-> {}, added |-> 0, resp |-> NoResponse]

\* no file chosen: uploadedFile is null
NoFile == [null |-> TRUE, name |-> <<>>, type |-> ""]

\* the FileUpload component after its first render: the five useState values,
\* the file input whose dialog is open (dialog), the fetches awaiting their
\* response (pending, by number of upload), the uploads started so far
\* (started), the setTimeout callbacks not yet run (timers), the clicks on
\* the upload button so far (clicks), the alerts shown (alerts) and the
\* object URLs revoked (revoked)
NoUi ==
  [isClicked |-> FALSE, uploadedFile |-> NoFile, uploadedFileName |-> <<>>,
   isUploading |-> FALSE, pdfUrl |-> 0, dialog |-> FALSE, pending |-> {},
   started |-> 0, timers |-> 0, clicks |-> 0, alerts |-> 0, revoked |-> {}]

Init ==
  /\ jobs = <<>>
  /\ queue = <<>>
  /\ status = <<>>
  /\ runs = <<>>
  /\ fs = <<>>
  /\ now = 0
  /\ faults = [fs |-> 0, embed |-> 0, stalled |-> 0]
  /\ lpc = "idle"
  /\ ltodo = {}
  /\ lpdfs = <<>>
  /\ lresult = <<>>
  /\ cpc = "input"
  /\ ctext = <<>>
  /\ cchunks = <<>>
  /\ req = NoRequest
  /\ ui = NoUi

listVars == <<lpc, ltodo, lpdfs, lresult>>
chunkerVars == <<cpc, ctext, cchunks>>
serverVars == <<req>>
clientVars == <<ui>>

\* time passes
Tick ==
  /\ now < MaxTime
  /\ now' = now + 1
  /\ UNCHANGED <<jobs, queue, status, runs, fs, faults, listVars, chunkerVars,
                  serverVars, clientVars>>

(***************************************************************************)
(* The queue.                                                              *)
(***************************************************************************)
\* queue.add('file-upload-queue', {filename, path, uploadedAt}), and any
\* other producer of the queue, whose data may lack file and path
QueueAdd(data, limit) ==
  /\ Len(jobs) < limit
  /\ jobs' = Append(jobs, data)
  /\ queue' = Append(queue, Len(jobs) + 1)
  /\ status' = Append(status, "waiting")
  /\ UNCHANGED <<runs, fs, now, faults, listVars, chunkerVars, serverVars, clientVars>>

JobData == [hasPath : {TRUE}, path : Paths] \cup {[hasPath |-> FALSE, path |-> <<>>]}

Running == {j \in 1..Len(jobs) : status[j] = "active"}

\* the worker takes the next job when fewer than `concurrency` are running
JobStart ==
  /\ queue # <<>>
  /\ Cardinality(Running) < Concurrency
  /\ LET j == Head(queue) IN
       /\ queue' = Tail(queue)
       /\ status' = [status EXCEPT ![j] = "active"]
       /\ runs' = (j :> NewRun) @@ runs
  /\ UNCHANGED <<jobs, fs, now, faults, listVars, chunkerVars, serverVars, clientVars>>

Without(f, j) == [k \in DOMAIN f \ {j} |-> f[k]]

\* the handler rejects: the queue marks the job failed
Reject(j) ==
  /\ status' = [status EXCEPT ![j] = "failed"]
  /\ runs' = Without(runs, j)

workerRest == <<jobs, queue, now, listVars, chunkerVars, serverVars, clientVars>>

(***************************************************************************)
(* The job handler of the worker, one action per await.                    *)
(***************************************************************************)
\* data.file || data.path, filePath.replace, path.basename: before the try
JobParse(j) ==
  /\ j \in DOMAIN runs /\ runs[j].pc = "parse"
  /\ IF jobs[j].hasPath
     THEN /\ runs' = [runs EXCEPT ![j].pc = "access",
                                  ![j].fileName = jobs[j].path]
          /\ UNCHANGED status
     ELSE Reject(j)
  /\ UNCHANGED <<fs, faults, workerRest>>

\* to the catch block of the handler
Caught(r, message) == [r EXCEPT !.pc = "catch", !.error = message]

\* await fs.access(filePath)
Access(j) ==
  /\ j \in DOMAIN runs /\ runs[j].pc = "access"
  /\ runs' = [runs EXCEPT ![j] =
                IF Disk[@.fileName].exists THEN [@ EXCEPT !.pc = "read"]
                ELSE Caught(@, "ENOENT")]
  /\ UNCHANGED <<status, fs, faults, workerRest>>

\* a call of fs fails
FsFails ==
  /\ faults.fs < MaxFsFailures
  /\ faults' = [faults EXCEPT !.fs = @ + 1]

\* await fs.readFile(filePath)
ReadFile(j) ==
  /\ j \in DOMAIN runs /\ runs[j].pc = "read"
  /\ \/ /\ runs' = [runs EXCEPT ![j].pc = "extract"]
        /\ UNCHANGED faults
     \/ /\ FsFails
        /\ runs' = [runs EXCEPT ![j] = Caught(@, "EIO")]
  /\ UNCHANGED <<status, fs, workerRest>>

\* await extractPDFText(fileBuffer, fileName), its catch, and the chunking,
\* which runs without an await up to the first embedding call
Extract(j) ==
  /\ j \in DOMAIN runs /\ runs[j].pc = "extract"
  /\ LET r == ExtractStep(Disk[runs[j].fileName].pdf, runs[j].fileName) IN
       runs' = [runs EXCEPT ![j].pc = "embed",
                            ![j].extractedText = r.extractedText,
                            ![j].extractionSuccess = r.extractionSuccess,
                            ![j].chunks = ChunkText(r.extractedText),
                            ![j].i = 0]
  /\ UNCHANGED <<status, fs, faults, workerRest>>

\* every chunk is processed
chunksToProcessAll(chunks) == Len(chunks)

\* const chunksToProcess = Math.min(chunks.length, 10)
chunksToProcess(chunks) == Min(Len(chunks), MaxEmbedChunks)

InLoop(j) ==
  /\ j \in DOMAIN runs /\ runs[j].pc = "embed"
  /\ runs[j].i < chunksToProcess(runs[j].chunks)

\* if (chunk.length < 20) continue
TooShort(chunk) == TextLength(chunk.text) < MinEmbedLength

EmbedSkip(j) ==
  /\ InLoop(j)
  /\ TooShort(runs[j].chunks[runs[j].i + 1])
  /\ runs' = [runs EXCEPT ![j].i = @ + 1]
  /\ UNCHANGED <<status, fs, faults, workerRest>>

\* await model.embedContent(chunk) answers
EmbedOk(j) ==
  /\ InLoop(j)
  /\ ~TooShort(runs[j].chunks[runs[j].i + 1])
  /\ runs' = [runs EXCEPT
       ![j].chunksWithEmbeddings =
          Append(@, [chunkIndex |-> runs[j].i,
                     content |-> runs[j].chunks[runs[j].i + 1].text]),
       ![j].embedCalls = Append(@, [index |-> runs[j].i, ok |-> TRUE]),
       ![j].i = @ + 1]
  /\ UNCHANGED <<status, fs, faults, workerRest>>

\* await model.embedContent(chunk) throws: logged, next chunk
EmbedFail(j) ==
  /\ InLoop(j)
  /\ ~TooShort(runs[j].chunks[runs[j].i + 1])
  /\ faults.embed < MaxEmbedFailures
  /\ faults' = [faults EXCEPT !.embed = @ + 1]
  /\ runs' = [runs EXCEPT
       ![j].embedCalls = Append(@, [index |-> runs[j].i, ok |-> FALSE]),
       ![j].i = @ + 1]
  /\ UNCHANGED <<status, fs, workerRest>>

\* the loop is over: timestamp = Date.now(), savePath
EmbedDone(j) ==
  /\ j \in DOMAIN runs /\ runs[j].pc = "embed"
  /\ ~(runs[j].i < chunksToProcess(runs[j].chunks))
  /\ runs' = [runs EXCEPT ![j].pc = "mkdir",
                          ![j].savePath = SavePath(runs[j].fileName, j, now)]
  /\ UNCHANGED <<status, fs, faults, workerRest>>

\* fs.mkdir(dir, { recursive: true }) succeeds, also when dir exists
MadeDir(dir, j) ==
  IF dir \in DOMAIN fs
  THEN [fs EXCEPT ![dir].writers = @ \cup {j}]
  ELSE (dir :> [EmptyDir EXCEPT !.writers = {j}]) @@ fs

\* await fs.mkdir(savePath, { recursive: true })
Mkdir(j) ==
  /\ j \in DOMAIN runs /\ runs[j].pc = "mkdir"
  /\ \/ /\ fs' = MadeDir(runs[j].savePath, j)
        /\ runs' = [runs EXCEPT ![j].pc = "write", ![j].written = 0]
        /\ UNCHANGED faults
     \/ /\ FsFails
        /\ runs' = [runs EXCEPT ![j] = Caught(@, "EACCES")]
        /\ UNCHANGED fs
  /\ UNCHANGED <<status, workerRest>>

\* metadata.json written first
PersistOrderMetadataFirst ==
  <<"metadata.json", "original.pdf", "extracted_text.txt", "chunks.json",
    "chunks_with_embeddings.json">>

\* the files of a document in the order the handler writes them
PersistOrder ==
  <<"original.pdf", "extracted_text.txt", "chunks.json",
    "chunks_with_embeddings.json", "metadata.json">>

\* chunks_with_embeddings.json written whatever the list holds
IsWrittenAlways(r, f) == TRUE

IsWritten(r, f) == f # "chunks_with_embeddings.json" \/ Len(r.chunksWithEmbeddings) > 0

\* if (chunksWithEmbeddings.length > 0) decides the fourth file
FilesToWrite(r) == SelectSeq(PersistOrder, LAMBDA f : IsWritten(r, f))

RECURSIVE ChunkTexts(_)
ChunkTexts(chunks) ==
  IF chunks = <<>> THEN <<>>
  ELSE <<Head(chunks).text>> \o ChunkTexts(Tail(chunks))

\* const metadata = { jobId, fileName, savedAt, fileSize, ... }
MetadataOf(r, j, t) ==
  [jobId |-> j, fileName |-> r.fileName, savedAt |-> t,
   fileSize |-> Disk[r.fileName].size,
   textLength |-> TextLength(r.extractedText),
   chunksCount |-> Len(r.chunks),
   embeddingsGenerated |-> Len(r.chunksWithEmbeddings),
   extractionSuccess |-> r.extractionSuccess,
   storagePath |-> r.savePath]

\* the directory after fs.writeFile(path.join(savePath, f), ...)
Written(dir, f, r, j, t) ==
  LET d == [dir EXCEPT !.files = @ \cup {f}] IN
  CASE f = "original.pdf" -> [d EXCEPT !.original = r.fileName]
    [] f = "extracted_text.txt" -> [d EXCEPT !.text = r.extractedText]
    [] f = "chunks.json" -> [d EXCEPT !.chunks = ChunkTexts(r.chunks)]
    [] f = "chunks_with_embeddings.json" ->
         [d EXCEPT !.embeddings = r.chunksWithEmbeddings]
    [] f = "metadata.json" -> [d EXCEPT !.metadata = MetadataOf(r, j, t)]

\* await fs.writeFile(...) of the next file of the document
WriteFile(j) ==
  /\ j \in DOMAIN runs /\ runs[j].pc = "write"
  /\ LET r == runs[j]
         todo == FilesToWrite(r)
         f == todo[r.written + 1]
     IN \/ /\ fs' = [fs EXCEPT ![r.savePath] = Written(@, f, r, j, now)]
           /\ runs' = [runs EXCEPT
                ![j].written = @ + 1,
                ![j].pc = IF r.written + 1 = Len(todo) THEN "return" ELSE "write"]
           /\ UNCHANGED faults
        \/ /\ FsFails
           /\ runs' = [runs EXCEPT ![j] = Caught(@, "ENOSPC")]
           /\ UNCHANGED fs
  /\ UNCHANGED <<status, workerRest>>

\* return { success: true, ... }: the queue marks the job completed
JobComplete(j) ==
  /\ j \in DOMAIN runs /\ runs[j].pc = "return"
  /\ status' = [status EXCEPT ![j] = "completed"]
  /\ runs' = Without(runs, j)
  /\ UNCHANGED <<fs, faults, workerRest>>

\* catch (error): errorPath, await fs.mkdir(errorPath, { recursive: true })
CatchMkdir(j) ==
  /\ j \in DOMAIN runs /\ runs[j].pc = "catch"
  /\ LET dir == ErrorPath(runs[j].fileName, now) IN
       \/ /\ fs' = MadeDir(dir, j)
          /\ runs' = [runs EXCEPT ![j].pc = "errwrite", ![j].errorPath = dir]
          /\ UNCHANGED faults
       \/ /\ FsFails
          /\ runs' = [runs EXCEPT ![j].pc = "throw", ![j].errorPath = dir]
          /\ UNCHANGED fs
  /\ UNCHANGED <<status, workerRest>>

\* const errorMeta = { jobId, fileName, error, ... }
ErrorMetaOf(r, j) == [jobId |-> j, fileName |-> r.fileName, error |-> r.error]

\* await fs.writeFile(path.join(errorPath, 'error.json'), ...), and the
\* catch (saveError) that only logs
CatchWrite(j) ==
  /\ j \in DOMAIN runs /\ runs[j].pc = "errwrite"
  /\ \/ /\ fs' = [fs EXCEPT ![runs[j].errorPath] =
                    [@ EXCEPT !.files = @ \cup {"error.json"},
                              !.error = ErrorMetaOf(runs[j], j)]]
        /\ runs' = [runs EXCEPT ![j].pc = "throw", ![j].errorSaved = TRUE]
        /\ UNCHANGED faults
     \/ /\ FsFails
        /\ runs' = [runs EXCEPT ![j].pc = "throw"]
        /\ UNCHANGED fs
  /\ UNCHANGED <<status, workerRest>>

\* throw error: the queue marks the job failed
JobFail(j) ==
  /\ j \in DOMAIN runs /\ runs[j].pc = "throw"
  /\ Reject(j)
  /\ UNCHANGED <<fs, faults, workerRest>>

(***************************************************************************)
(* listProcessedPDFs, one action per await.                                *)
(***************************************************************************)
\* the entry pushed for a directory whose metadata.json parses
PdfEntry(d) ==
  LET metadata == fs[d].metadata IN
  [id |-> d, name |-> metadata.fileName, savedAt |-> metadata.savedAt,
   fileSize |-> metadata.fileSize, textLength |-> metadata.textLength,
   chunks |-> metadata.chunksCount,
   embeddings |-> metadata.embeddingsGenerated,
   extractionSuccess |-> metadata.extractionSuccess]

RECURSIVE InsertBySavedAt(_, _)
InsertBySavedAt(sorted, e) ==
  IF sorted = <<>> THEN <<e>>
  ELSE IF Head(sorted).savedAt >= e.savedAt
       THEN <<Head(sorted)>> \o InsertBySavedAt(Tail(sorted), e)
       ELSE <<e>> \o sorted

RECURSIVE SortBySavedAt(_)
\* pdfs.sort((a, b) => new Date(b.savedAt) - new Date(a.savedAt)), stable
SortBySavedAt(pdfs) ==
  IF pdfs = <<>> THEN <<>>
  ELSE InsertBySavedAt(SortBySavedAt(SubSeq(pdfs, 1, Len(pdfs) - 1)),
                       pdfs[Len(pdfs)])

listRest == <<jobs, queue, status, runs, fs, now, faults, chunkerVars, serverVars, clientVars>>

\* await fs.readdir(STORAGE_DIR, { withFileTypes: true }); the items that are
\* not directories or whose name starts with error_ are passed over at once
ListReaddir ==
  /\ lpc = "idle"
  /\ lpc' = "scan"
  /\ ltodo' = {d \in DOMAIN fs : ~StartsWithError(d)}
  /\ lpdfs' = <<>>
  /\ lresult' = <<>>
  /\ UNCHANGED listRest

\* one item of the loop: await fs.readFile(metadataPath), JSON.parse, push;
\* a metadata.json that is missing makes the item skipped
ListItem(d) ==
  /\ lpc = "scan"
  /\ d \in ltodo
  /\ ltodo' = ltodo \ {d}
  /\ lpdfs' = IF "metadata.json" \in fs[d].files
              THEN Append(lpdfs, PdfEntry(d))
              ELSE lpdfs
  /\ UNCHANGED <<lpc, lresult, listRest>>

\* return pdfs.sort(...)
ListReturn ==
  /\ lpc = "scan"
  /\ ltodo = {}
  /\ lpc' = "returned"
  /\ lresult' = SortBySavedAt(lpdfs)
  /\ UNCHANGED <<ltodo, lpdfs, listRest>>

\* the caller has used the list
ListDone ==
  /\ lpc = "returned"
  /\ lpc' = "idle"
  /\ lpdfs' = <<>>
  /\ lresult' = <<>>
  /\ UNCHANGED <<ltodo, listRest>>

(***************************************************************************)
(* The functions of the server on texts.                                   *)
(***************************************************************************)
ChatLength == 4000
SearchLength == 5000
PreviewLength == 1000
MinContentLength == 50
ContextRadius == 150
ContentScore == 100
FilenameScore == 80

\* the upper-case characters of the model's texts and their lower-case forms
LowerChar(c) ==
  CASE c = "G" -> "g" [] c = "P" -> "p" [] c = "Q" -> "q" [] OTHER -> c

RECURSIVE ToLowerCase(_)
\* String.prototype.toLowerCase
ToLowerCase(t) ==
  IF t = <<>> THEN <<>>
  ELSE Cat(<<K(LowerChar(Head(t).ch), Head(t).n)>>, ToLowerCase(Tail(t)))

\* the number of characters before run i of t
Before(t, i) == TextLength(SubSeq(t, 1, i - 1))

\* p occurs in t with its first character in run i: the first run of p ends
\* run i, its last run begins run i + Len(p) - 1, the runs between are equal
OccursAt(t, p, i) ==
  LET m == Len(p) IN
  /\ i + m - 1 <= Len(t)
  /\ t[i].ch = p[1].ch
  /\ t[i].n >= p[1].n
  /\ (m > 1) => /\ t[i + m - 1].ch = p[m].ch
                /\ t[i + m - 1].n >= p[m].n
                /\ \A k \in 2..(m - 1) : t[i + k - 1] = p[k]

\* String.prototype.indexOf: the first position p occurs at in t, or -1
IndexOf(t, p) ==
  IF p = <<>> THEN 0
  ELSE LET at == {i \in 1..Len(t) : OccursAt(t, p, i)} IN
       IF at = {} THEN -1
       ELSE LET i == CHOOSE i \in at : \A j \in at : i <= j
            IN Before(t, i) + (IF Len(p) = 1 THEN 0 ELSE t[i].n - p[1].n)

\* String.prototype.includes
Includes(t, p) == IndexOf(t, p) # -1

\* '... (truncated)'
TruncatedSuffix ==
  NameText(<<".", ".", ".", " ", "(", "t", "r", "u", "n", "c", "a", "t", "e",
             "d", ")">>)

\* getPDFContent(pdfId, maxLength): fails tells whether fs.readFile fails
\* for a reason of its own; a missing file makes it fail as well
getPDFContent(pdfId, maxLength, fails) ==
  IF fails \/ pdfId \notin DOMAIN fs \/ "extracted_text.txt" \notin fs[pdfId].files
  THEN NoContent
  ELSE LET text == fs[pdfId].text IN
       [null |-> FALSE,
        text |-> IF TextLength(text) > maxLength
                 THEN Cat(Substring(text, 0, maxLength), TruncatedSuffix)
                 ELSE text]

IsDigit(c) == c \in {"0", "1", "2", "3", "4", "5", "6", "7", "8", "9"}

DigitValue(c) == CHOOSE d \in 0..9 : DigitChar(d) = c

RECURSIVE Repeated(_, _, _)
\* acc followed by n copies of the digit d, as a number
Repeated(acc, d, n) == IF n = 0 THEN acc ELSE Repeated(acc * 10 + d, d, n - 1)

RECURSIVE ParseInt(_, _, _)
\* (\d+) from run i on: the number read and the run after the digits
ParseInt(t, i, acc) ==
  IF i <= Len(t) /\ IsDigit(t[i].ch)
  THEN ParseInt(t, i + 1, Repeated(acc, DigitValue(t[i].ch), t[i].n))
  ELSE [value |-> acc, next |-> i]

\* /\[Page (\d+)\]/ matches with its [ in run i
MarkerAt(t, i) ==
  /\ t[i].ch = "["
  /\ i + 7 <= Len(t)
  /\ <<t[i + 1], t[i + 2], t[i + 3], t[i + 4], t[i + 5]>>
       = <<K("P", 1), K("a", 1), K("g", 1), K("e", 1), K(" ", 1)>>
  /\ IsDigit(t[i + 6].ch)
  /\ LET after == ParseInt(t, i + 6, 0).next
     IN after <= Len(t) /\ t[after].ch = "]"

\* extractPageNumberFromContext: the page number, 0 for null
extractPageNumberFromContext(context) ==
  LET at == {i \in 1..Len(context) : MarkerAt(context, i)} IN
  IF at = {} THEN 0
  ELSE ParseInt(context, (CHOOSE i \in at : \A j \in at : i <= j) + 6, 0).value

\* the result pushed when the content includes the query
TextMatch(pdf, content, queryLower) ==
  LET contentLower == ToLowerCase(content)
      index == IndexOf(contentLower, queryLower)
      contextStart == Max(0, index - ContextRadius)
      contextEnd == Min(TextLength(content),
                        index + TextLength(queryLower) + ContextRadius)
      context == Substring(content, contextStart, contextEnd)
  IN [fields |-> {"pdfId", "name", "score", "context", "pageRef", "matchType"},
      pdfId |-> pdf.id, name |-> pdf.name, score |-> ContentScore,
      context |-> Cat(Cat(<<K(".", 3)>>, context), <<K(".", 3)>>),
      pageRef |-> extractPageNumberFromContext(context),
      matchType |-> "text_search"]

\* the result pushed when the file name includes the query
FilenameMatch(pdf) ==
  [fields |-> {"pdfId", "name", "score", "context", "matchType"},
   pdfId |-> pdf.id, name |-> pdf.name, score |-> FilenameScore,
   context |-> Cat(Words(<<8, 8>>) \o <<W(1)>>, NameText(pdf.name)),
   pageRef |-> 0, matchType |-> "filename"]

\* the filename result pushed only when the content does not match
SearchOneEither(pdf, content, queryLower) ==
  IF content.null \/ content.text = <<>> THEN <<>>
  ELSE IF Includes(ToLowerCase(content.text), queryLower)
       THEN <<TextMatch(pdf, content.text, queryLower)>>
       ELSE IF Includes(ToLowerCase(NameText(pdf.name)), queryLower)
            THEN <<FilenameMatch(pdf)>> ELSE <<>>

\* the body of the loop of searchPDFs after getPDFContent has returned
SearchOne(pdf, content, queryLower) ==
  IF content.null \/ content.text = <<>> THEN <<>>
  ELSE (IF Includes(ToLowerCase(content.text), queryLower)
        THEN <<TextMatch(pdf, content.text, queryLower)>> ELSE <<>>)
       \o (IF Includes(ToLowerCase(NameText(pdf.name)), queryLower)
           THEN <<FilenameMatch(pdf)>> ELSE <<>>)

RECURSIVE InsertByScore(_, _)
InsertByScore(sorted, e) ==
  IF sorted = <<>> THEN <<e>>
  ELSE IF Head(sorted).score >= e.score
       THEN <<Head(sorted)>> \o InsertByScore(Tail(sorted), e)
       ELSE <<e>> \o sorted

RECURSIVE SortByScore(_)
\* results.sort((a, b) => b.score - a.score), stable
SortByScore(results) ==
  IF results = <<>> THEN <<>>
  ELSE InsertByScore(SortByScore(SubSeq(results, 1, Len(results) - 1)),
                     results[Len(results)])

\* pdfsToSearch
pdfsToSearch(pdfs, pdfId) ==
  IF pdfId # <<>> THEN SelectSeq(pdfs, LAMBDA pdf : pdf.id = pdfId) ELSE pdfs

\* the model names getAIAnswer tries, in order
modelNames ==
  <<"gemini-1.5-flash-latest", "gemini-1.5-pro-latest", "gemini-pro",
    "gemini-1.0-pro">>

(***************************************************************************)
(* The routes of the server, one action per await.  The model has one      *)
(* request in progress at a time; a handler at position "list" is inside   *)
(* its call of listProcessedPDFs, whose steps are the actions above.       *)
(***************************************************************************)
\* res.status(code).json(body)
Json(code, body) ==
  [status |-> code, fields |-> DOMAIN body] @@ body @@ NoResponse

Respond(r, code, body) == [r EXCEPT !.pc = "done", !.resp = Json(code, body)]

RECURSIVE CatAll(_)
\* the parts of a template string put together
CatAll(ts) == IF ts = <<>> THEN <<>> ELSE Cat(Head(ts), CatAll(Tail(ts)))

\* a string between double quotes
Quoted(t) == Cat(Cat(<<C(1)>>, t), <<C(1)>>)

\* the caller takes the list listProcessedPDFs has returned
ListTaken ==
  /\ lpc = "returned"
  /\ lpc' = "idle"
  /\ lpdfs' = <<>>
  /\ lresult' = <<>>
  /\ UNCHANGED ltodo

requestRest == <<jobs, queue, status, runs, fs, now, chunkerVars, clientVars>>

\* whether the next call of fs by the handler may fail
Failing(r) == IF r.failures < MaxReadFailures THEN BOOLEAN ELSE {FALSE}

\* the request after a call of fs that failed, or did not
Called(r, fails) == [r EXCEPT !.failures = @ + (IF fails THEN 1 ELSE 0)]

\* GET /chat?message=...&pdfId=... up to the call of listProcessedPDFs;
\* pdfId is <<>> when the parameter is absent
ChatStart(query, pdfId) ==
  /\ req.route = "none"
  /\ req' = IF query = <<>>
            THEN Respond([NoRequest EXCEPT !.route = "chat"], 400,
                         [error |-> "Message query parameter is required"])
            ELSE [NoRequest EXCEPT !.route = "chat", !.pc = "list",
                                   !.query = query, !.pdfId = pdfId]
  /\ UNCHANGED <<faults, listVars, requestRest>>

RECURSIVE JoinNames(_)
\* pdfs.map(p => p.name).join(', ')
JoinNames(pdfs) ==
  IF pdfs = <<>> THEN <<>>
  ELSE IF Len(pdfs) = 1 THEN NameText(Head(pdfs).name)
  ELSE Cat(Cat(NameText(Head(pdfs).name), <<K(",", 1), W(1)>>),
           JoinNames(Tail(pdfs)))

\* the last document of the list when no pdfId is given
TargetOfLast(pdfs, pdfId) ==
  IF pdfId # <<>> THEN SelectSeq(pdfs, LAMBDA pdf : pdf.id = pdfId)
  ELSE <<pdfs[Len(pdfs)]>>

\* targetPdf of a non-empty list, in a sequence that is empty when
\* pdfs.find(pdf => pdf.id === pdfId) finds nothing
TargetOf(pdfs, pdfId) ==
  IF pdfId # <<>> THEN SelectSeq(pdfs, LAMBDA pdf : pdf.id = pdfId)
  ELSE <<pdfs[1]>>

\* the body telling that there are PDFs
NoPDFsBodyHasPDFs(query) ==
  [message |-> Words(<<2, 4, 6, 6, 6, 1, 3, 4, 6>>), query |-> query,
   hasPDFs |-> TRUE]

\* { message: "No PDFs found. ...", query: userQuery, hasPDFs: false }
NoPDFsBody(query) ==
  [message |-> Words(<<2, 4, 6, 6, 6, 1, 3, 4, 6>>), query |-> query,
   hasPDFs |-> FALSE]

\* the body naming the available PDFs without their ids
NotFoundBodyNamesOnly(query, pdfId, pdfs) ==
  [message |-> JoinNames(pdfs), query |-> query,
   availablePDFs |-> [i \in 1..Len(pdfs) |-> [id |-> <<>>, name |-> pdfs[i].name]]]

\* { message: `PDF with ID ${pdfId} not found. Available PDFs: ...`, query,
\*   availablePDFs: pdfs.map(p => ({ id: p.id, name: p.name })) }
NotFoundBody(query, pdfId, pdfs) ==
  [message |-> CatAll(<<Words(<<3, 4, 2>>), <<W(1)>>, NameText(pdfId), <<W(1)>>,
                        Words(<<3, 6, 9, 5>>), <<W(1)>>, JoinNames(pdfs)>>),
   query |-> query,
   availablePDFs |-> [i \in 1..Len(pdfs) |-> [id |-> pdfs[i].id, name |-> pdfs[i].name]]]

\* the list has returned: no PDFs, pdfId not found, or the call of
\* getPDFContent(targetPdf.id)
ChatListed ==
  /\ req.route = "chat" /\ req.pc = "list"
  /\ ListTaken
  /\ LET pdfs == lresult
         listed == [req EXCEPT !.pdfs = pdfs]
     IN req' =
          IF Len(pdfs) = 0
          THEN Respond(listed, 200, NoPDFsBody(req.query))
          ELSE IF TargetOf(pdfs, req.pdfId) = <<>>
          THEN Respond(listed, 200, NotFoundBody(req.query, req.pdfId, pdfs))
          ELSE [listed EXCEPT !.target = TargetOf(pdfs, req.pdfId)[1],
                              !.pc = "content", !.maxLength = ChatLength]
  /\ UNCHANGED <<faults, requestRest>>

\* await getPDFContent(targetPdf.id), and the test of what it returned
ChatContent ==
  /\ req.route = "chat" /\ req.pc = "content"
  /\ \E fails \in Failing(req) :
       /\ LET content == getPDFContent(req.target.id, req.maxLength, fails)
              read == [Called(req, fails) EXCEPT !.content = content,
                                                  !.reads = @ + 1]
          IN req' =
               IF content.null \/ content.text = <<>>
                  \/ TextLength(content.text) < MinContentLength
               THEN Respond(read, 200,
                      [message |->
                         Cat(Cat(Words(<<5, 3>>) \o <<W(1)>>,
                                 Quoted(NameText(req.target.name))),
                             <<W(1)>> \o Words(<<3, 8, 4, 3, 7, 9, 6, 3, 12, 3, 4>>)),
                       pdfName |-> req.target.name, query |-> req.query,
                       pdfId |-> req.target.id])
               ELSE [read EXCEPT !.pc = "ai", !.k = 1]
  /\ UNCHANGED <<faults, listVars, requestRest>>

\* response.text() of model k when it answers: a text of k words
Answer(k) == Words([i \in 1..k |-> 6])

\* getAIAnswer going on to the next model after an answer
AfterModelNoReturn(k, ok) ==
  IF k < Len(modelNames) THEN "next" ELSE IF ok THEN "answered" ELSE "failed"

\* getAIAnswer after model k has answered (return response.text()) or has
\* failed (continue, or the throw after the loop)
AfterModel(k, ok) ==
  IF ok THEN "answered" ELSE IF k < Len(modelNames) THEN "next" ELSE "failed"

\* the pdfId of the request, whatever the route
SearchPdfIdOfRequest(r) == r.pdfId

\* the pdfId searchPDFs is called with
SearchPdfId(r) == IF r.route = "chat" THEN r.target.id ELSE r.pdfId

\* one turn of the loop of getAIAnswer: await model.generateContent(prompt),
\* result.response, response.text(); ok tells whether they all succeed.
\* After the last failure getAIAnswer throws 'AI service is temporarily
\* unavailable' and the handler calls searchPDFs(userQuery, targetPdf.id),
\* which calls listProcessedPDFs
AiTry(ok) ==
  /\ req.route = "chat" /\ req.pc = "ai"
  /\ LET called == [req EXCEPT !.aiCalls =
                      Append(@, [model |-> modelNames[req.k], ok |-> ok])]
         after == AfterModel(req.k, ok)
     IN req' =
          CASE after = "answered" ->
                 Respond(called, 200,
                   [message |-> Answer(req.k), pdfName |-> req.target.name,
                    pdfId |-> req.target.id, query |-> req.query,
                    source |-> "AI Analysis", hasAnswer |-> TRUE])
            [] after = "next" -> [called EXCEPT !.k = @ + 1]
            [] after = "failed" ->
                 [called EXCEPT
                    !.thrown = Append(@, "AI service is temporarily unavailable"),
                    !.pc = "slist", !.searches = @ + 1]
  /\ UNCHANGED <<faults, listVars, requestRest>>

\* GET /search?q=...&pdfId=... up to the call of listProcessedPDFs in searchPDFs
SearchStart(query, pdfId) ==
  /\ req.route = "none"
  /\ req' = IF query = <<>>
            THEN Respond([NoRequest EXCEPT !.route = "search"], 400,
                         [error |-> "Search query is required"])
            ELSE [NoRequest EXCEPT !.route = "search", !.pc = "slist",
                                   !.query = query, !.pdfId = pdfId,
                                   !.searches = 1]
  /\ UNCHANGED <<faults, listVars, requestRest>>

\* searchPDFs: the list has returned, pdfsToSearch
SearchListed ==
  /\ req.pc = "slist"
  /\ ListTaken
  /\ req' = [req EXCEPT !.pc = "search", !.results = <<>>,
                        !.todo = pdfsToSearch(lresult, SearchPdfId(req))]
  /\ UNCHANGED <<faults, requestRest>>

\* searchPDFs: one turn of the loop, await getPDFContent(pdf.id, 5000)
SearchRead ==
  /\ req.pc = "search" /\ req.todo # <<>>
  /\ \E fails \in Failing(req) :
       LET pdf == Head(req.todo)
           content == getPDFContent(pdf.id, SearchLength, fails)
       IN req' = [Called(req, fails) EXCEPT
            !.todo = Tail(@), !.content = content,
            !.maxLength = SearchLength, !.reads = @ + 1,
            !.skipped = IF content.null \/ content.text = <<>>
                        THEN @ \cup {pdf.id} ELSE @,
            !.results = @ \o SearchOne(pdf, content, ToLowerCase(req.query))]
  /\ UNCHANGED <<faults, listVars, requestRest>>

\* the message of the chat answer found by text search
SearchMessage(name, bestMatch) ==
  CatAll(<<Words(<<5, 2>>), <<W(1)>>, Quoted(NameText(name)), <<C(1), W(2)>>,
           bestMatch.context, <<W(2), K("(", 1)>>, Words(<<5, 3, 4, 6>>),
           IF bestMatch.pageRef # 0
           THEN NameText(<<",", " ", "P", "a", "g", "e", " ">>
                         \o Digits(bestMatch.pageRef))
           ELSE <<>>,
           <<K(")", 1)>>>>)

\* the message of the chat answer when the search found nothing
NoMatchMessage(name, query) ==
  CatAll(<<Words(<<1, 8, 7>>), <<W(1)>>, Quoted(NameText(name)), <<W(1)>>,
           Words(<<3, 8, 4, 11, 5>>), <<W(1)>>, Quoted(query), <<C(1), W(1)>>,
           Words(<<3, 6, 1, 9, 8, 2, 5, 2, 3, 3, 8, 4, 12>>)>>)

\* searchPDFs returns results.sort(...); /search sends them, /chat sends the
\* first of them or that nothing matched
SearchReturn ==
  /\ req.pc = "search" /\ req.todo = <<>>
  /\ LET searchResults == SortByScore(req.results)
         searched == [req EXCEPT !.results = searchResults]
     IN req' =
          IF req.route = "search"
          THEN Respond(searched, 200,
                 [success |-> TRUE, query |-> req.query,
                  results |-> searchResults, count |-> Len(searchResults)])
          ELSE IF Len(searchResults) > 0
          THEN Respond(searched, 200,
                 [message |-> SearchMessage(req.target.name, searchResults[1]),
                  pdfName |-> req.target.name, pdfId |-> req.target.id,
                  query |-> req.query, source |-> "Text Search",
                  hasAnswer |-> TRUE, matches |-> Len(searchResults)])
          ELSE Respond(searched, 200,
                 [message |-> NoMatchMessage(req.target.name, req.query),
                  pdfName |-> req.target.name, pdfId |-> req.target.id,
                  query |-> req.query, source |-> "No Match Found",
                  hasAnswer |-> FALSE])
  /\ UNCHANGED <<faults, listVars, requestRest>>

\* GET /pdf/:id up to await fs.access(pdfPath)
PdfAccess(id) ==
  /\ req.route = "none"
  /\ \E fails \in Failing(NoRequest) :
       LET r == Called([NoRequest EXCEPT !.route = "pdf", !.pdfId = id], fails)
       IN req' = IF fails \/ id \notin DOMAIN fs
                 THEN Respond(r, 404, [error |-> "PDF not found"])
                 ELSE [r EXCEPT !.pc = "metadata"]
  /\ UNCHANGED <<faults, listVars, requestRest>>

\* await getPDFMetadata(pdfId): null when metadata.json cannot be read
PdfMetadata ==
  /\ req.route = "pdf" /\ req.pc = "metadata"
  /\ \E fails \in Failing(req) :
       req' = IF fails \/ req.pdfId \notin DOMAIN fs
                 \/ "metadata.json" \notin fs[req.pdfId].files
              THEN Respond(Called(req, fails), 404,
                           [error |-> "PDF metadata not found"])
              ELSE [req EXCEPT !.metadata = fs[req.pdfId].metadata,
                               !.pc = "content", !.maxLength = PreviewLength]
  /\ UNCHANGED <<faults, listVars, requestRest>>

\* await getPDFContent(pdfId, 1000)
PdfContent ==
  /\ req.route = "pdf" /\ req.pc = "content"
  /\ \E fails \in Failing(req) :
       req' = [Called(req, fails) EXCEPT
                 !.content = getPDFContent(req.pdfId, req.maxLength, fails),
                 !.reads = @ + 1, !.pc = "readdir"]
  /\ UNCHANGED <<faults, listVars, requestRest>>

\* await fs.readdir(pdfPath) and the response
PdfReaddir ==
  /\ req.route = "pdf" /\ req.pc = "readdir"
  /\ \E fails \in Failing(req) :
       req' = IF fails \/ req.pdfId \notin DOMAIN fs
              THEN Respond(Called(req, fails), 500,
                           [error |-> "Failed to get PDF details"])
              ELSE Respond(req, 200,
                     [success |-> TRUE, id |-> req.pdfId,
                      metadata |-> req.metadata,
                      contentPreview |-> req.content,
                      files |-> fs[req.pdfId].files,
                      hasText |-> ~req.content.null])
  /\ UNCHANGED <<faults, listVars, requestRest>>

\* GET /pdfs and GET /recent up to the call of listProcessedPDFs
ListStart(route) ==
  /\ req.route = "none"
  /\ req' = [NoRequest EXCEPT !.route = route, !.pc = "list"]
  /\ UNCHANGED <<faults, listVars, requestRest>>

\* GET /pdfs: the list has returned
PdfsListed ==
  /\ req.route = "pdfs" /\ req.pc = "list"
  /\ ListTaken
  /\ req' = Respond([req EXCEPT !.pdfs = lresult], 200,
                    [success |-> TRUE, count |-> Len(lresult), pdfs |-> lresult])
  /\ UNCHANGED <<faults, requestRest>>

RecentCount == 5
BytesPerMB == 1048576

\* (pdf.fileSize / 1024 / 1024).toFixed(2) + ' MB'
SizeMB(fileSize) ==
  LET h == (fileSize * 100 + BytesPerMB \div 2) \div BytesPerMB
  IN Digits(h \div 100)
     \o <<".", DigitChar((h % 100) \div 10), DigitChar(h % 10), " ", "M", "B">>

\* GET /recent: the list has returned
RecentListed ==
  /\ req.route = "recent" /\ req.pc = "list"
  /\ ListTaken
  /\ LET recent == SubSeq(lresult, 1, Min(RecentCount, Len(lresult))) IN
       req' = Respond([req EXCEPT !.pdfs = lresult], 200,
                [success |-> TRUE,
                 recent |-> [i \in 1..Len(recent) |->
                               [id |-> recent[i].id, name |-> recent[i].name,
                                uploaded |-> recent[i].savedAt,
                                size |-> SizeMB(recent[i].fileSize)]],
                 total |-> Len(lresult)])
  /\ UNCHANGED <<faults, requestRest>>

\* the response is sent: the server is ready for the next request of the model
RequestDone ==
  /\ req.pc = "done"
  /\ req' = NoRequest
  /\ UNCHANGED <<faults, listVars, requestRest>>

(***************************************************************************)
(* The ingestion worker, the queue and the read path.                      *)
(***************************************************************************)
JobIds ==
  1..Max(Max(Max(MaxJobs, MaxReadJobs), Max(MaxServeJobs, MaxUploadJobs)),
         MaxRedeliverJobs)

Worker ==
  \/ \E j \in JobIds : JobParse(j)
  \/ \E j \in JobIds : Access(j)
  \/ \E j \in JobIds : ReadFile(j)
  \/ \E j \in JobIds : Extract(j)
  \/ \E j \in JobIds : EmbedSkip(j)
  \/ \E j \in JobIds : EmbedOk(j)
  \/ \E j \in JobIds : EmbedFail(j)
  \/ \E j \in JobIds : EmbedDone(j)
  \/ \E j \in JobIds : Mkdir(j)
  \/ \E j \in JobIds : WriteFile(j)
  \/ \E j \in JobIds : JobComplete(j)
  \/ \E j \in JobIds : CatchMkdir(j)
  \/ \E j \in JobIds : CatchWrite(j)
  \/ \E j \in JobIds : JobFail(j)

Next ==
  \/ Tick
  \/ \E data \in JobData : QueueAdd(data, MaxJobs)
  \/ JobStart
  \/ Worker

Spec == Init /\ [][Next]_vars

\* one ingestion at a time of a few jobs, with the read path
NextRead ==
  \/ Tick
  \/ \E data \in JobData : QueueAdd(data, MaxReadJobs)
  \/ JobStart
  \/ Worker
  \/ ListReaddir
  \/ \E d \in ltodo : ListItem(d)
  \/ ListReturn
  \/ ListDone

SpecRead == Init /\ [][NextRead]_vars

(***************************************************************************)
(* The server between ingestions: the requests of the model arrive while   *)
(* the worker is idle, and no upload is queued while one is handled.  The  *)
(* documents are those of the files d and g, whose texts hold page markers *)
(* and page text only.  The ingestions succeed: the failures of the file   *)
(* system and of the embedding service under the worker are used up from   *)
(* the start, those under the server are counted by request.               *)
(***************************************************************************)
ServeJobData == [hasPath : {TRUE}, path : {<<"d">>, <<"g">>}]

\* the queries of the model: qq (in the text of d, in another case), d (the
\* name of d), g (the name of g, and in every page marker), truncated, z
Queries ==
  {<<K("q", 2)>>, <<K("d", 1)>>, <<K("G", 1)>>,
   NameText(<<"t", "r", "u", "n", "c", "a", "t", "e", "d">>), <<K("z", 1)>>}

\* the ids a request may name: the directories of the store and one other
PdfIds == DOMAIN fs \cup {<<"n", "o">>}

Quiescent == queue = <<>> /\ DOMAIN runs = {}

\* the steps of a run of the job handler that meets no failure
ServeWorker ==
  \/ \E j \in JobIds : JobParse(j)
  \/ \E j \in JobIds : Access(j)
  \/ \E j \in JobIds : ReadFile(j)
  \/ \E j \in JobIds : Extract(j)
  \/ \E j \in JobIds : EmbedSkip(j)
  \/ \E j \in JobIds : EmbedOk(j)
  \/ \E j \in JobIds : EmbedDone(j)
  \/ \E j \in JobIds : Mkdir(j)
  \/ \E j \in JobIds : WriteFile(j)
  \/ \E j \in JobIds : JobComplete(j)

\* listProcessedPDFs is being called by the handler
Listing == req.pc \in {"list", "slist"}

NextServe ==
  \/ Tick
  \/ \E data \in ServeJobData : req.route = "none" /\ QueueAdd(data, MaxServeJobs)
  \/ JobStart
  \/ ServeWorker
  \/ \E query \in Queries \cup {<<>>}, pdfId \in PdfIds \cup {<<>>} :
       Quiescent /\ ChatStart(query, pdfId)
  \/ \E query \in Queries \cup {<<>>}, pdfId \in PdfIds \cup {<<>>} :
       Quiescent /\ SearchStart(query, pdfId)
  \/ \E id \in PdfIds : Quiescent /\ PdfAccess(id)
  \/ \E route \in {"pdfs", "recent"} : Quiescent /\ ListStart(route)
  \/ Listing /\ ListReaddir
  \/ \E d \in ltodo : ListItem(d)
  \/ ListReturn
  \/ ChatListed
  \/ ChatContent
  \/ \E ok \in BOOLEAN : AiTry(ok)
  \/ SearchListed
  \/ SearchRead
  \/ SearchReturn
  \/ PdfMetadata
  \/ PdfContent
  \/ PdfReaddir
  \/ PdfsListed
  \/ RecentListed
  \/ RequestDone

InitServe ==
  /\ jobs = <<>>
  /\ queue = <<>>
  /\ status = <<>>
  /\ runs = <<>>
  /\ fs = <<>>
  /\ now = 0
  /\ faults = [fs |-> MaxFsFailures, embed |-> MaxEmbedFailures, stalled |-> 0]
  /\ lpc = "idle"
  /\ ltodo = {}
  /\ lpdfs = <<>>
  /\ lresult = <<>>
  /\ cpc = "input"
  /\ ctext = <<>>
  /\ cchunks = <<>>
  /\ req = NoRequest
  /\ ui = NoUi

SpecServe == InitServe /\ [][NextServe]_vars

(***************************************************************************)
(* POST /upload/pdf: the multer middleware upload.single('pdf'), then the  *)
(* handler.  An error of the middleware (the fileFilter refusing the file, *)
(* the file larger than limits.fileSize) is passed to next(err): the       *)
(* handler is not called and, the application having no error middleware,  *)
(* the default error handler of Express answers with status 500.           *)
(***************************************************************************)
FileSizeLimit == 10485760

\* what the default error handler sends: no JSON body
NoBody == [f \in {} |-> FALSE]

\* the status the middleware ends the request with, 0 when it calls the
\* handler: the fileFilter is asked before the file is received
MulterStatus(file) ==
  IF ~file.present THEN 0
  ELSE IF file.mimetype # "application/pdf" \/ file.size > FileSizeLimit
       THEN 500
       ELSE 0

\* the request up to await queue.add(...); limit bounds the jobs of the model
UploadStart(file, limit) ==
  /\ req.route = "none"
  /\ Len(jobs) < limit
  /\ LET r == [NoRequest EXCEPT !.route = "upload", !.file = file] IN
       req' = IF MulterStatus(file) # 0
              THEN Respond(r, MulterStatus(file), NoBody)
              ELSE IF ~file.present
                   THEN Respond(r, 400, [error |-> "No file uploaded"])
                   ELSE [r EXCEPT !.pc = "add"]
  /\ UNCHANGED <<faults, listVars, requestRest>>

\* await queue.add('file-upload-queue', { filename, path, uploadedAt }) and
\* the response; or queue.add rejects and the catch answers 500
UploadAdd ==
  /\ req.route = "upload" /\ req.pc = "add"
  /\ \/ /\ jobs' = Append(jobs, [hasPath |-> TRUE, path |-> req.file.path])
        /\ queue' = Append(queue, Len(jobs) + 1)
        /\ status' = Append(status, "waiting")
        /\ req' = Respond([req EXCEPT !.added = @ + 1], 200,
                    [success |-> TRUE, message |-> Words(<<3, 8, 3, 6, 3, 10>>),
                     filename |-> req.file.path, jobId |-> Len(jobs) + 1,
                     status_ |-> "queued",
                     note |-> Words(<<3, 2, 5, 10, 3, 3, 3, 9, 5, 2, 8>>)])
     \/ /\ req' = Respond(req, 500,
                    [error |-> "Upload failed", details |-> "queue.add rejected"])
        /\ UNCHANGED <<jobs, queue, status>>
  /\ UNCHANGED <<runs, fs, now, faults, listVars, chunkerVars, clientVars>>

\* the files of the upload requests of the model: none, the PDF d, a file
\* that is not a PDF, a PDF of more than 10 MB
UploadFiles ==
  {NoUpload,
   [present |-> TRUE, mimetype |-> "application/pdf", size |-> Disk[<<"d">>].size,
    path |-> <<"d">>],
   [present |-> TRUE, mimetype |-> "text/plain", size |-> 1, path |-> <<"a">>],
   [present |-> TRUE, mimetype |-> "application/pdf", size |-> FileSizeLimit + 1,
    path |-> <<"a">>]}

NextUpload ==
  \/ Tick
  \/ \E file \in UploadFiles : UploadStart(file, MaxUploadJobs)
  \/ UploadAdd
  \/ RequestDone
  \/ JobStart
  \/ Worker

SpecUpload == Init /\ [][NextUpload]_vars

(***************************************************************************)
(* At-least-once delivery: the worker loses a job it has taken (its        *)
(* process dies, or the lock of the job expires) and the queue hands the   *)
(* job out again, under the same job id.  GET /pdfs, GET /recent and GET   *)
(* /pdf/:id are served meanwhile.                                          *)
(***************************************************************************)
\* the active job j is moved back to the waiting jobs; its run is lost
Redeliver(j) ==
  /\ j \in DOMAIN runs
  /\ faults.stalled < MaxRedeliveries
  /\ faults' = [faults EXCEPT !.stalled = @ + 1]
  /\ status' = [status EXCEPT ![j] = "waiting"]
  /\ queue' = Append(queue, j)
  /\ runs' = Without(runs, j)
  /\ UNCHANGED <<jobs, fs, now, listVars, chunkerVars, serverVars, clientVars>>

NextRedeliver ==
  \/ Tick
  \/ \E data \in ServeJobData : QueueAdd(data, MaxRedeliverJobs)
  \/ JobStart
  \/ ServeWorker
  \/ \E j \in JobIds : Redeliver(j)
  \/ \E id \in PdfIds : PdfAccess(id)
  \/ \E route \in {"pdfs", "recent"} : ListStart(route)
  \/ Listing /\ ListReaddir
  \/ \E d \in ltodo : ListItem(d)
  \/ ListReturn
  \/ PdfMetadata
  \/ PdfContent
  \/ PdfReaddir
  \/ PdfsListed
  \/ RecentListed
  \/ RequestDone

SpecRedeliver == InitServe /\ [][NextRedeliver]_vars

(***************************************************************************)
(* The FileUpload component of the client.  Every event handler runs to    *)
(* its first await, and the state it sets is rendered before the next      *)
(* event.  The file dialog of the browser is modal: the button is not      *)
(* clicked while it is open.  The button itself is never disabled, the     *)
(* class names of an upload in progress only change its look.              *)
(***************************************************************************)
clientRest ==
  <<jobs, queue, status, runs, fs, now, faults, listVars, chunkerVars, serverVars>>

\* the files the user may pick: two PDFs, a file that is not a PDF, and a
\* change event without any file
ClientFiles ==
  {[null |-> FALSE, name |-> <<"d">>, type |-> "application/pdf"],
   [null |-> FALSE, name |-> <<"g">>, type |-> "application/pdf"],
   [null |-> FALSE, name |-> <<"a">>, type |-> "text/plain"],
   NoFile}

\* handleUploadButtonClick: setIsClicked(true), the file input is created and
\* clicked, its change listener added, setTimeout(..., 150)
UploadButtonClick(limit) ==
  /\ ~ui.dialog
  /\ ui.clicks < limit
  /\ ui' = [ui EXCEPT !.isClicked = TRUE, !.dialog = TRUE,
                      !.timers = @ + 1, !.clicks = @ + 1]
  /\ UNCHANGED clientRest

\* the change listener up to await fetch(...): setUploadedFile,
\* setUploadedFileName, setPdfUrl(URL.createObjectURL(file)),
\* setIsUploading(true)
StartedUpload(u, file) ==
  [u EXCEPT !.uploadedFile = file, !.uploadedFileName = file.name,
            !.pdfUrl = u.started + 1, !.isUploading = TRUE,
            !.started = @ + 1, !.pending = @ \cup {u.started + 1}]

\* the user picks a file in the dialog: the change event
FileChange(file) ==
  /\ ui.dialog
  /\ LET u == [ui EXCEPT !.dialog = FALSE] IN
       ui' = IF file.null THEN u
             ELSE IF file.type = "application/pdf" THEN StartedUpload(u, file)
             ELSE [u EXCEPT !.alerts = @ + 1]
  /\ UNCHANGED clientRest

\* the user closes the dialog without a file: no change event
DialogCancel ==
  /\ ui.dialog
  /\ ui' = [ui EXCEPT !.dialog = FALSE]
  /\ UNCHANGED clientRest

\* the fetch of upload n settles (response.ok, a response that is not ok, or
\* a rejection): each branch only logs, then finally setIsUploading(false)
FetchSettled(n) ==
  /\ n \in ui.pending
  /\ ui' = [ui EXCEPT !.pending = @ \ {n}, !.isUploading = FALSE]
  /\ UNCHANGED clientRest

\* setTimeout(() => setIsClicked(false), 150)
ClickTimeout ==
  /\ ui.timers > 0
  /\ ui' = [ui EXCEPT !.timers = @ - 1, !.isClicked = FALSE]
  /\ UNCHANGED clientRest

\* handleRemoveFile, of the button rendered when uploadedFile is set
RemoveFile ==
  /\ ~ui.uploadedFile.null
  /\ ui' = [ui EXCEPT !.uploadedFile = NoFile, !.uploadedFileName = <<>>,
                      !.revoked = IF ui.pdfUrl # 0 THEN @ \cup {ui.pdfUrl} ELSE @,
                      !.pdfUrl = 0]
  /\ UNCHANGED clientRest

NextClient ==
  \/ UploadButtonClick(MaxClicks)
  \/ \E file \in ClientFiles : FileChange(file)
  \/ DialogCancel
  \/ \E n \in 1..MaxClicks : FetchSettled(n)
  \/ ClickTimeout
  \/ RemoveFile

SpecClient == Init /\ [][NextClient]_vars

(***************************************************************************)
(* The extraction step and the chunker applied to one source at a time.    *)
(***************************************************************************)
\* total lengths of single-page texts around the window boundaries
ChunkerLengths ==
  {800 * k + r : k \in {1, 2, 3, 10, 48, 49, 50, 51},
                 r \in {0, 1, 199, 200, 201, 202, 799}}
  \cup {10, 19, 20, 999, 1000}

\* twenty lines of text, each ending in a carriage return
LongRawLines == [k \in 1..20 |-> Line(<<C(60), W(1)>>, FALSE)]

ChunkerPdfs ==
  {Pdf(TRUE, <<Page(TRUE, <<C(l - 9)>>)>>, <<>>) : l \in ChunkerLengths}
  \cup {Pdf(TRUE, <<Page(TRUE, <<C(500), W(3000), C(500)>>)>>, <<>>),
        Pdf(TRUE, <<Page(TRUE, <<C(500), W(1500), C(401)>>)>>, <<>>),
        Pdf(TRUE, <<Page(TRUE, Words(<<30, 30>>)), Page(FALSE, <<>>)>>, <<>>),
        Pdf(TRUE, <<Page(FALSE, <<>>), Page(TRUE, <<W(2000), C(5)>>)>>, <<>>),
        Pdf(TRUE, <<>>, <<>>),
        Pdf(TRUE, <<>>, RawLines),
        Pdf(FALSE, <<>>, RawLines),
        Pdf(FALSE, <<>>, LongRawLines),
        Pdf(FALSE, <<>>, <<Line(<<C(8)>>, TRUE)>>)}

ChunkerInputs == [pdf : ChunkerPdfs, fileName : {<<"f", " ">>, <<"g">>}]

ChunkerExtract(in) ==
  /\ cpc = "input"
  /\ cpc' = "extracted"
  /\ ctext' = ExtractStep(in.pdf, in.fileName).extractedText
  /\ UNCHANGED <<cchunks, jobs, queue, status, runs, fs, now, faults, listVars,
                  serverVars, clientVars>>

ChunkerChunk ==
  /\ cpc = "extracted"
  /\ cpc' = "chunked"
  /\ cchunks' = ChunkText(ctext)
  /\ UNCHANGED <<ctext, jobs, queue, status, runs, fs, now, faults, listVars,
                  serverVars, clientVars>>

NextChunker ==
  \/ \E in \in ChunkerInputs : ChunkerExtract(in)
  \/ ChunkerChunk

SpecChunker == Init /\ [][NextChunker]_vars

(***************************************************************************)
(* Properties of the chunker, under SpecChunker.                           *)
(***************************************************************************)
CeilDiv(a, b) == (a + b - 1) \div b

StartsIncrease(chunks) ==
  \A k \in 1..(Len(chunks) - 1) : chunks[k].start < chunks[k + 1].start

\* the windows of the text, by number: window k starts at k * (chunkSize - overlap)
WindowCount(text) == CeilDiv(TextLength(text), chunkSize - overlap)

NonBlankWindows(text) ==
  {k \in 0..(WindowCount(text) - 1) :
     Trim(Substring(text, k * (chunkSize - overlap),
                    k * (chunkSize - overlap) + chunkSize)) # <<>>}

\* C8, as stated: a text of length L > 1000 gives
\* min(ceil((L - 200) / 800), 50) chunks, with strictly increasing starts
C8_CountAsStated ==
  (cpc = "chunked" /\ TextLength(ctext) > chunkSize)
  => /\ Len(cchunks) = Min(CeilDiv(TextLength(ctext) - overlap,
                                   chunkSize - overlap), MaxChunks)
     /\ StartsIncrease(cchunks)

\* C8, amended: a text of length L > 1000 gives one chunk for each of the
\* windows starting at 0, 800, 1600, ... below L that is not blank, up to 50
\* chunks: min(ceil(L / 800), 50) chunks when no window is blank; the starts
\* strictly increase
C8_CountByWindows ==
  (cpc = "chunked" /\ TextLength(ctext) > chunkSize)
  => /\ Len(cchunks) = Min(Cardinality(NonBlankWindows(ctext)), MaxChunks)
     /\ Cardinality(NonBlankWindows(ctext)) = WindowCount(ctext)
        => Len(cchunks) = Min(WindowCount(ctext), MaxChunks)
     /\ \A k \in 1..Len(cchunks) :
          /\ cchunks[k].start % (chunkSize - overlap) = 0
          /\ cchunks[k].start \div (chunkSize - overlap) \in NonBlankWindows(ctext)
     /\ StartsIncrease(cchunks)

\* a text whose last window starts in the overlap of the one before: one
\* chunk more than ceil((L - 200) / 800)
C8_Witness ==
  /\ cpc = "chunked"
  /\ TextLength(ctext) = 1601
  /\ Len(cchunks) = 3
  /\ cchunks[3].start = 1600

\* C9, as stated: a text shorter than 1000 gives exactly one chunk, equal to
\* the trimmed text
C9_TrimmedAsStated ==
  (cpc = "chunked" /\ TextLength(ctext) < chunkSize)
  => /\ Len(cchunks) = 1
     /\ cchunks[1].text = Trim(ctext)

\* C9, amended: a text shorter than 1000 gives exactly one chunk, equal to
\* the text as it is, not trimmed
C9_OneChunkVerbatim ==
  (cpc = "chunked" /\ TextLength(ctext) < chunkSize)
  => /\ Len(cchunks) = 1
     /\ cchunks[1].text = ctext
     /\ cchunks[1].start = 0

\* a short fallback text that ends in whitespace has been chunked
C9_Witness ==
  /\ cpc = "chunked"
  /\ TextLength(ctext) < chunkSize
  /\ Trim(ctext) # ctext
  /\ Len(cchunks) = 1

(***************************************************************************)
(* Properties of the ingestion, under Spec and SpecRead.                   *)
(***************************************************************************)
DocDirs == {d \in DOMAIN fs : ~StartsWithError(d)}

\* the documents: the directories listProcessedPDFs can list
Persisted == {d \in DocDirs : "metadata.json" \in fs[d].files}

Complete(d) ==
  /\ {"original.pdf", "extracted_text.txt", "chunks.json"} \subseteq fs[d].files
  /\ fs[d].metadata.embeddingsGenerated > 0
     => "chunks_with_embeddings.json" \in fs[d].files

Listed(pdfs) ==
  \A k \in 1..Len(pdfs) :
    /\ pdfs[k].id \in Persisted
    /\ Complete(pdfs[k].id)
    /\ pdfs[k].embeddings > 0
       => "chunks_with_embeddings.json" \in fs[pdfs[k].id].files

\* C1: whatever the interleaving of the job with listProcessedPDFs, a listed
\* document has original.pdf, extracted_text.txt, chunks.json (and
\* chunks_with_embeddings.json when an embedding succeeded): metadata.json is
\* written last, and a directory without it is not listed
C1_ListedComplete ==
  /\ \A d \in DOMAIN fs : "metadata.json" \in fs[d].files => Complete(d)
  /\ Listed(lpdfs)
  /\ Listed(lresult)

\* the list returns a document with embeddings while its job has not returned
C1_Witness ==
  /\ lpc = "returned"
  /\ Len(lresult) = 1
  /\ lresult[1].embeddings > 0
  /\ \E j \in DOMAIN runs : runs[j].pc = "return"

MissingSource(j) == jobs[j].hasPath /\ ~Disk[jobs[j].path].exists

ErrorRecorded(j, message) ==
  \E d \in DOMAIN fs :
    /\ StartsWithError(d)
    /\ "error.json" \in fs[d].files
    /\ fs[d].error.jobId = j
    /\ fs[d].error.error = message

\* job j has written nothing but under error_ directories, and no metadata.json
NoDocument(j) ==
  \A d \in DOMAIN fs :
    /\ j \in fs[d].writers => StartsWithError(d) /\ "metadata.json" \notin fs[d].files
    /\ "metadata.json" \in fs[d].files => fs[d].metadata.jobId # j

Throwing(j) == j \in DOMAIN runs /\ runs[j].pc = "throw"

\* C3, as stated: a job whose source path does not exist fails, its error
\* record is under an error_ directory when the handler throws, and no
\* document is created for it
C3_AsStated ==
  \A j \in 1..Len(jobs) :
    MissingSource(j)
    => /\ status[j] # "completed"
       /\ NoDocument(j)
       /\ Throwing(j) => ErrorRecorded(j, "ENOENT")

\* C3, amended: a job whose source path does not exist fails without
\* extracting anything, no document is created for it, and its error record
\* is under an error_ directory when the handler throws unless the creation
\* of that directory or the write of error.json has failed
C3_ErrorRecordUnlessSaveFails ==
  \A j \in 1..Len(jobs) :
    MissingSource(j)
    => /\ status[j] # "completed"
       /\ NoDocument(j)
       /\ j \in DOMAIN runs
          => runs[j].pc \in {"parse", "access", "catch", "errwrite", "throw"}
       /\ (Throwing(j) /\ runs[j].errorSaved) => ErrorRecorded(j, "ENOENT")
       /\ (Throwing(j) /\ ~runs[j].errorSaved) => faults.fs > 0

\* a job whose source is missing has failed and left its error record
C3_Witness ==
  \E j \in 1..Len(jobs) :
    /\ MissingSource(j)
    /\ status[j] = "failed"
    /\ ErrorRecorded(j, "ENOENT")

\* C4, as stated: when a run signals failure to the queue, an error record
\* with the error message and the job id is already under an error_ directory
C4_ErrorRecordBeforeFailure ==
  [][\A j \in 1..Len(jobs) :
       (status[j] = "active" /\ status'[j] = "failed")
       => ErrorRecorded(j, runs[j].error)]_vars

ExtractionThrows(fileName) == extractPDFText(Disk[fileName].pdf).threw

\* the run has been through the extraction step
Extracted(r) ==
  \/ r.pc \in {"embed", "mkdir", "write", "return"}
  \/ r.pc \in {"catch", "errwrite", "throw"} /\ r.error \in {"EACCES", "ENOSPC"}

\* C5: when the source is readable and extractPDFText throws, the run goes
\* on with extractionSuccess false and the non-empty placeholder as text, the
\* document it persists records both, and the job fails only if a call of fs
\* has failed
C5_PlaceholderRecord ==
  /\ \A j \in DOMAIN runs :
       (Extracted(runs[j]) /\ ExtractionThrows(runs[j].fileName))
       => /\ runs[j].extractionSuccess = FALSE
          /\ runs[j].extractedText = Placeholder(runs[j].fileName)
          /\ TextLength(runs[j].extractedText) > 0
          /\ runs[j].pc \in {"catch", "errwrite", "throw"} => faults.fs > 0
  /\ \A d \in Persisted :
       ExtractionThrows(fs[d].metadata.fileName)
       => /\ fs[d].metadata.extractionSuccess = FALSE
          /\ fs[d].text = Placeholder(fs[d].metadata.fileName)
          /\ fs[d].metadata.textLength > 0
  /\ \A j \in 1..Len(jobs) :
       (jobs[j].hasPath /\ Disk[jobs[j].path].exists
        /\ ExtractionThrows(jobs[j].path) /\ status[j] = "failed")
       => faults.fs > 0

\* a job whose extraction throws has completed and persisted its document
C5_Witness ==
  \E j \in 1..Len(jobs) :
    /\ status[j] = "completed"
    /\ ExtractionThrows(jobs[j].path)
    /\ \E d \in Persisted :
         /\ fs[d].metadata.jobId = j
         /\ fs[d].metadata.extractionSuccess = FALSE

NumOk(calls) == Cardinality({k \in 1..Len(calls) : calls[k].ok})

\* C6: a run leaves the embedding loop for the persisting only; a run that
\* returns has written embeddingsGenerated equal to the number of embedding
\* calls that succeeded, and chunks_with_embeddings.json exactly when that
\* number is not 0; a run is in its catch block only after a failure of fs
\* or for a missing source
C6_EmbeddingNeverFails ==
  \A j \in DOMAIN runs :
    /\ runs[j].pc \in {"catch", "errwrite", "throw"}
       => (faults.fs > 0 \/ MissingSource(j))
    /\ runs[j].pc \in {"mkdir", "write", "return"}
       => /\ Len(runs[j].chunksWithEmbeddings) = NumOk(runs[j].embedCalls)
          /\ runs[j].i = chunksToProcess(runs[j].chunks)
    /\ runs[j].pc = "return"
       => LET dir == fs[runs[j].savePath] IN
          /\ "metadata.json" \in dir.files
          /\ dir.metadata.embeddingsGenerated = NumOk(runs[j].embedCalls)
          /\ Len(dir.embeddings) = NumOk(runs[j].embedCalls)
          /\ "chunks_with_embeddings.json" \in dir.files
             <=> NumOk(runs[j].embedCalls) > 0

\* every embedding call of a run has failed and the run returns
C6_Witness ==
  \E j \in DOMAIN runs :
    /\ runs[j].pc = "return"
    /\ Len(runs[j].embedCalls) > 0
    /\ NumOk(runs[j].embedCalls) = 0
    /\ fs[runs[j].savePath].metadata.embeddingsGenerated = 0

\* C7: the embedding function is called for chunks of index below
\* min(10, chunk count) and of length at least 20 only, in increasing order
\* of index, hence at most once for a chunk and at most 10 times in a run
C7_EmbedCalls ==
  \A j \in DOMAIN runs :
    LET calls == runs[j].embedCalls
        chunks == runs[j].chunks
    IN /\ Len(calls) <= 10
       /\ \A k \in 1..Len(calls) :
            /\ calls[k].index < Min(10, Len(chunks))
            /\ TextLength(chunks[calls[k].index + 1].text) >= 20
       /\ \A k \in 1..(Len(calls) - 1) : calls[k].index < calls[k + 1].index

\* a run with 11 chunks has left the loop after 10 calls
C7_Witness ==
  \E j \in DOMAIN runs :
    /\ runs[j].pc = "mkdir"
    /\ Len(runs[j].chunks) = 11
    /\ Len(runs[j].embedCalls) = 10

\* C10: a document whose extracted text is not empty has a chunk list that
\* is not empty, and chunksCount tells so
C10_ChunksNonEmpty ==
  /\ \A d \in DOMAIN fs :
       ("chunks.json" \in fs[d].files /\ TextLength(fs[d].text) > 0)
       => Len(fs[d].chunks) > 0
  /\ \A d \in Persisted :
       /\ fs[d].metadata.chunksCount = Len(fs[d].chunks)
       /\ fs[d].metadata.textLength = TextLength(fs[d].text)
       /\ fs[d].metadata.textLength > 0 => fs[d].metadata.chunksCount > 0

\* documents of a fallback text and of a placeholder text are persisted
C10_Witness ==
  \E d1, d2 \in Persisted :
    /\ fs[d1].metadata.fileName = <<"e">>
    /\ fs[d2].metadata.fileName = <<"f", " ">>
    /\ Len(fs[d1].chunks) > 0
    /\ Len(fs[d2].chunks) > 0

(***************************************************************************)
(* Properties of the chat route, under SpecServe.                          *)
(***************************************************************************)
\* a chat request with a message has been answered
ChatAnswered ==
  req.route = "chat" /\ req.pc = "done" /\ req.query # <<>>

\* C11, as stated: a chat query against an empty document store returns
\* hasPDFs:false and hasAnswer:false, without any AI call, text search or
\* read of a document
C11_AsStated ==
  (ChatAnswered /\ Persisted = {})
  => /\ "hasPDFs" \in req.resp.fields /\ ~req.resp.hasPDFs
     /\ "hasAnswer" \in req.resp.fields /\ ~req.resp.hasAnswer
     /\ req.aiCalls = <<>> /\ req.searches = 0 /\ req.reads = 0

\* C11, amended: a chat query against an empty document store returns
\* hasPDFs:false in a body that has no field hasAnswer (nor source), with
\* status 200, without any AI call, text search or read of a document; the
\* worker, which alone extracts and embeds, is not set to work by it
C11_NoPDFs ==
  (ChatAnswered /\ Persisted = {})
  => /\ req.resp.status = 200
     /\ req.resp.fields = {"message", "query", "hasPDFs"}
     /\ ~req.resp.hasPDFs
     /\ req.resp.query = req.query
     /\ req.aiCalls = <<>> /\ req.searches = 0 /\ req.reads = 0
     /\ Quiescent

\* a chat query answered against a store without documents
C11_Witness ==
  /\ ChatAnswered /\ Persisted = {}
  /\ req.resp.status = 200 /\ ~req.resp.hasPDFs

\* the id and name of every document of the store
Available == {[id |-> d, name |-> fs[d].metadata.fileName] : d \in Persisted}

\* a chat request naming a document that is not in a store that has some
ChatMissingId ==
  /\ ChatAnswered
  /\ req.pdfId # <<>> /\ req.pdfId \notin Persisted /\ Persisted # {}

ChatDefault ==
  ChatAnswered /\ req.pdfId = <<>> /\ Persisted # {}

\* C13: a chat request without a document id is answered from the document
\* with the greatest savedAt of the store: the target of the handler and the
\* pdfId of the response are that of a document no other was saved after
C13_MostRecent ==
  ChatDefault
  => /\ "pdfId" \in req.resp.fields
     /\ req.resp.pdfId = req.target.id
     /\ req.resp.pdfName = req.target.name
     /\ req.target.id \in Persisted
     /\ req.target.savedAt = fs[req.target.id].metadata.savedAt
     /\ \A d \in Persisted : fs[d].metadata.savedAt <= req.target.savedAt
     /\ req.reads > 0 => req.content = getPDFContent(req.target.id, req.maxLength,
                                                     req.content.null)

\* answered by a model from the later of two documents saved at different
\* times
C13_Witness ==
  /\ ChatDefault
  /\ req.resp.source = "AI Analysis"
  /\ \E d \in Persisted : fs[d].metadata.savedAt < req.target.savedAt

(***************************************************************************)
(* Properties of getAIAnswer, under SpecServe.                             *)
(***************************************************************************)
AllFailed(calls) ==
  Len(calls) = Len(modelNames) /\ \A i \in 1..Len(calls) : ~calls[i].ok

\* C14: getAIAnswer calls the models in the order of the list, each at most
\* once; a model is called only after all those before it have failed; the
\* answer of the first model that succeeds is returned at once; one error
\* is thrown, and only when every model of the list has failed
C14_FirstSuccessWins ==
  LET calls == req.aiCalls
      n == Len(calls)
  IN /\ n <= Len(modelNames)
     /\ \A i \in 1..n : calls[i].model = modelNames[i]
     /\ \A i \in 1..(n - 1) : ~calls[i].ok
     /\ (n > 0 /\ calls[n].ok)
        => /\ req.pc = "done"
           /\ req.resp.source = "AI Analysis"
           /\ req.resp.message = Answer(n)
           /\ req.thrown = <<>>
     /\ req.thrown # <<>> <=> AllFailed(calls)
     /\ Len(req.thrown) <= 1

\* the third model answers after the first two have failed
C14_Witness ==
  /\ Len(req.aiCalls) = 3
  /\ ~req.aiCalls[1].ok /\ ~req.aiCalls[2].ok /\ req.aiCalls[3].ok
  /\ req.pc = "done"
  /\ req.resp.message = Answer(3)

(***************************************************************************)
(* Properties of the fallback of the chat route, under SpecServe.          *)
(***************************************************************************)
\* C15: when every model has failed the chat handler calls searchPDFs once,
\* for the target document only; it answers with the context of the result
\* of the highest score, source 'Text Search' and hasAnswer true, or, when
\* the search returns nothing, with source 'No Match Found' and hasAnswer
\* false; searchPDFs is not called unless every model has failed
C15_FallbackSearch ==
  req.route = "chat"
  => /\ req.searches > 0 <=> AllFailed(req.aiCalls)
     /\ req.searches <= 1
     /\ \A i \in 1..Len(req.results) : req.results[i].pdfId = req.target.id
     /\ (req.pc = "done" /\ AllFailed(req.aiCalls))
        => IF req.results # <<>>
           THEN /\ req.resp.source = "Text Search"
                /\ "hasAnswer" \in req.resp.fields /\ req.resp.hasAnswer
                /\ \E i \in 1..Len(req.results) :
                     /\ \A j \in 1..Len(req.results) :
                          req.results[j].score <= req.results[i].score
                     /\ Includes(req.resp.message, req.results[i].context)
                /\ req.resp.matches = Len(req.results)
                /\ req.resp.pdfId = req.target.id
           ELSE /\ req.resp.source = "No Match Found"
                /\ "hasAnswer" \in req.resp.fields /\ ~req.resp.hasAnswer
                /\ req.resp.pdfId = req.target.id

\* every model has failed and the search of the target, one of two
\* documents, has found the query in its text and in its name
C15_Witness ==
  /\ ChatAnswered /\ AllFailed(req.aiCalls)
  /\ Cardinality(Persisted) = 2
  /\ req.pdfId = <<>>
  /\ Len(req.results) = 2
  /\ req.results[1].matchType = "text_search"
  /\ req.resp.source = "Text Search"

\* every model has failed and the search has found nothing
C15_NoMatch ==
  /\ ChatAnswered /\ AllFailed(req.aiCalls)
  /\ req.results = <<>>
  /\ req.resp.source = "No Match Found"

(***************************************************************************)
(* Properties of searchPDFs, under SpecServe.                              *)
(***************************************************************************)
\* a search request with a query has been answered
SearchAnswered ==
  req.route = "search" /\ req.pc = "done" /\ req.query # <<>>

\* the candidate documents of the request
Candidates == {d \in Persisted : req.pdfId = <<>> \/ d = req.pdfId}

\* the file name of document d contains the query, case-insensitively
NameMatches(d) ==
  Includes(ToLowerCase(NameText(fs[d].metadata.fileName)), ToLowerCase(req.query))

\* the results of the kind for document d
ResultsOf(d, kind) ==
  {i \in 1..Len(req.results) :
     req.results[i].pdfId = d /\ req.results[i].matchType = kind}

\* the scores by kind, the filename results without page reference, the
\* results in descending order of score
ScoresAndOrder ==
  /\ \A i \in 1..Len(req.results) :
       /\ req.results[i].matchType = "filename"
          => /\ req.results[i].score = FilenameScore
             /\ "pageRef" \notin req.results[i].fields
       /\ req.results[i].matchType = "text_search"
          => req.results[i].score = ContentScore
  /\ \A i \in 1..Len(req.results), j \in 1..Len(req.results) :
       i < j => req.results[i].score >= req.results[j].score

\* C16, as stated: every candidate document whose file name contains the
\* query gets a separate filename result of score 80 without page reference,
\* whether its content matches or not and whether it can be read or not;
\* content matches score 100 and the results are in descending score order
C16_AsStated ==
  SearchAnswered
  => /\ \A d \in Candidates : NameMatches(d) => ResultsOf(d, "filename") # {}
     /\ ScoresAndOrder

\* C16, amended: every candidate document whose content getPDFContent has
\* returned (read, and not empty) and whose file name contains the query gets
\* exactly one filename result of score 80 without page reference, whether
\* its content matches or not; a candidate whose content could not be read
\* gets no result at all; content matches score 100 and the results are in
\* descending score order
C16_FilenameUnlessUnread ==
  SearchAnswered
  => /\ \A d \in Candidates :
          IF d \in req.skipped
          THEN ResultsOf(d, "filename") = {} /\ ResultsOf(d, "text_search") = {}
          ELSE IF NameMatches(d)
               THEN Cardinality(ResultsOf(d, "filename")) = 1
               ELSE ResultsOf(d, "filename") = {}
     /\ ScoresAndOrder

\* two documents whose content matches, the first searched matching by its
\* name as well: its filename result is sorted after the content result of
\* the other document
C16_Witness ==
  /\ SearchAnswered
  /\ Len(req.results) = 3
  /\ req.skipped = {}
  /\ req.results[3].matchType = "filename"
  /\ req.results[2].pdfId # req.results[3].pdfId
  /\ ResultsOf(req.results[3].pdfId, "text_search") # {}

\* a document whose name contains the query and whose content does not
C16_FilenameOnly ==
  /\ SearchAnswered
  /\ \E d \in Candidates :
       /\ d \notin req.skipped
       /\ ResultsOf(d, "filename") # {} /\ ResultsOf(d, "text_search") = {}


(***************************************************************************)
(* C17: the responses of POST /upload/pdf.                                 *)
(***************************************************************************)
UploadAnswered == req.route = "upload" /\ req.pc = "done"

\* the file of the request is one the upload accepts: a PDF of at most 10 MB
Acceptable(file) ==
  file.present /\ file.mimetype = "application/pdf" /\ file.size <= FileSizeLimit

\* C17: an answered upload has enqueued exactly one job and returned success
\* with jobId, filename and status 'queued' when its PDF was accepted, has
\* returned 400 and enqueued nothing when its file is not a PDF or exceeds
\* 10 MB, and has returned 500 otherwise
C17_UploadResponses ==
  UploadAnswered =>
    /\ req.resp.status \in {200, 400, 500}
    /\ req.resp.status = 200 =>
         /\ Acceptable(req.file)
         /\ req.added = 1
         /\ {"success", "jobId", "filename", "status_"} \subseteq req.resp.fields
         /\ req.resp.success
         /\ req.resp.jobId = Len(jobs)
         /\ jobs[req.resp.jobId].path = req.file.path
         /\ req.resp.filename = req.file.path
         /\ req.resp.status_ = "queued"
    /\ req.resp.status # 200 => req.added = 0
    /\ (req.file.present /\ ~Acceptable(req.file)) => req.resp.status = 400
    /\ (Acceptable(req.file) /\ req.added = 0) => req.resp.status = 500

\* what does hold of the refused file: nothing is enqueued, and the answer is
\* the 500 of the default error handler
C17_RefusedIs500 ==
  (UploadAnswered /\ req.file.present /\ ~Acceptable(req.file)) =>
    req.resp.status = 500 /\ req.resp.fields = {} /\ req.added = 0

\* an upload of a file larger than 10 MB has been answered
C17_TooLarge ==
  UploadAnswered /\ req.file.present /\ req.file.size > FileSizeLimit


(***************************************************************************)
(* C18: the length of what getPDFContent returns.                          *)
(***************************************************************************)
\* the request holds a text that getPDFContent returned
ContentRead == req.route \in {"chat", "search", "pdf"} /\ ~req.content.null

\* C18: the text getPDFContent(id, maxLength) returned is never longer than
\* maxLength: at most 1000 characters for the preview of GET /pdf/:id, 5000
\* for the search, 4000 for the AI model
C18_AtMostMaxLength ==
  ContentRead =>
    /\ TextLength(req.content.text) <= req.maxLength
    /\ req.route = "pdf" => req.maxLength = PreviewLength
    /\ req.route = "search" => req.maxLength = SearchLength
    /\ req.route = "chat" => req.maxLength \in {ChatLength, SearchLength}
    /\ (req.route = "chat" /\ req.searches = 0) => req.maxLength = ChatLength

\* what does hold: the text is at most the suffix longer than maxLength
C18_AtMostMaxLengthAndSuffix ==
  ContentRead =>
    TextLength(req.content.text) <= req.maxLength + TextLength(TruncatedSuffix)

\* the lengths the routes ask for
C18_LengthsAsked ==
  ContentRead =>
    /\ req.route = "pdf" => req.maxLength = PreviewLength
    /\ req.route = "search" => req.maxLength = SearchLength
    /\ req.route = "chat" => req.maxLength \in {ChatLength, SearchLength}
    /\ (req.route = "chat" /\ req.searches = 0) => req.maxLength = ChatLength

\* the preview of a document of more than 1000 characters has been read
C18_LongPreview ==
  /\ req.route = "pdf" /\ ContentRead
  /\ TextLength(fs[req.pdfId].text) > PreviewLength


(***************************************************************************)
(* C19: one document for an upload, that nothing changes afterwards.       *)
(***************************************************************************)
\* the documents whose metadata.json names job j
DocumentsOf(j) == {d \in Persisted : fs[d].metadata.jobId = j}

\* C19: each enqueued upload results in exactly one document directory, even
\* when the queue delivers the job more than once: a job never has two
\* documents, and has one when it has completed
C19_OneDocumentEach ==
  \A j \in 1..Len(jobs) :
    /\ Cardinality(DocumentsOf(j)) <= 1
    /\ status[j] = "completed" => Cardinality(DocumentsOf(j)) = 1

\* a step leaves every file of every document as it is
DocumentsKept ==
  \A d \in Persisted :
    /\ d \in DOMAIN fs'
    /\ [fs'[d] EXCEPT !.writers = fs[d].writers] = fs[d]

\* the second half of C19, which holds while every job is delivered once:
\* once metadata.json is written no step changes or removes a file of the
\* document
C19_DocumentsKept == [][DocumentsKept]_vars

\* a job delivered twice has left two documents
C19_TwoDocuments == \E j \in 1..Len(jobs) : Cardinality(DocumentsOf(j)) = 2


(***************************************************************************)
(* C20: what a content match is found in.                                  *)
(***************************************************************************)
\* the query of the request occurs, case-insensitively, in the stored
\* extracted text of document d
InStoredText(d) ==
  /\ d \in DOMAIN fs
  /\ "extracted_text.txt" \in fs[d].files
  /\ Includes(ToLowerCase(fs[d].text), ToLowerCase(req.query))

\* C20: searchPDFs reports a content match (score 100, matchType
\* 'text_search') for a document only if the query occurs, case-insensitively,
\* in the stored extracted text of that document: the truncation suffix that
\* getPDFContent appends produces no match
C20_MatchInStoredText ==
  \A i \in 1..Len(req.results) :
    req.results[i].matchType = "text_search" => InStoredText(req.results[i].pdfId)

\* what does hold: a content match is found in what getPDFContent(id, 5000)
\* returns for the document, suffix included
C20_MatchInReturnedText ==
  \A i \in 1..Len(req.results) :
    req.results[i].matchType = "text_search"
    => Includes(ToLowerCase(getPDFContent(req.results[i].pdfId, SearchLength,
                                          FALSE).text),
                ToLowerCase(req.query))

\* a search has answered with a content match for a document whose stored
\* text does not hold the query
C20_SuffixMatch ==
  /\ SearchAnswered
  /\ \E i \in 1..Len(req.results) :
       /\ req.results[i].matchType = "text_search"
       /\ req.results[i].score = ContentScore
       /\ ~InStoredText(req.results[i].pdfId)


(***************************************************************************)
(* C21: isUploading and the uploads in flight, under SpecClient.           *)
(***************************************************************************)
\* C21: whatever the interleaving of clicks, file selections and responses,
\* isUploading is true exactly while at least one upload request of the
\* component is in flight
C21_UploadingWhilePending == ui.isUploading <=> ui.pending # {}

\* the same as a property of steps: isUploading does not become false while
\* another upload of the component stays pending
C21_NoEarlyFalse ==
  [][(ui.isUploading /\ ~ui'.isUploading) => ui'.pending = {}]_vars

\* what does hold: while isUploading is true an upload is in flight
C21_UploadingImpliesPending == ui.isUploading => ui.pending # {}

\* the first of two uploads in flight has settled: the button shows no
\* upload while the second is still pending
C21_PendingNotShown ==
  /\ ~ui.isUploading
  /\ ui.pending = {2}
  /\ ui.started = 2

====
